---- MODULE Spec2Model ----
(***************************************************************************)
(* A model of the printer of Turbo87/prettier: the node-to-document        *)
(* translator of src/printer.js, the template translator of                *)
(* src/printer-handlebars.js (and its earlier version), and the Printer    *)
(* object that owns the options.  The document builders and the renderer   *)
(* (./pp), the path cursor (./fast-path), ./util, ./options and ./comments *)
(* are not part of the sources at hand; they are modelled from the         *)
(* specification.                                                          *)
(*                                                                         *)
(* Texts are TLA+ strings; strings whose characters matter (string         *)
(* literals, template text) are sequences of one-character strings.        *)
(***************************************************************************)
EXTENDS Integers, Sequences, FiniteSets

VARIABLES
  options,           \* the Printer's normalized options object (mutable)
  explicitTabWidth,  \* originalOptions.tabWidth as given at construction (0: none)
  config,            \* the normalized options as they were at construction
  input,             \* the AST handed to the last call, as it was at call entry
  ast,               \* the same AST object as the call left it
  result,            \* outcome of the last call
  op,                \* the last operation
  frames             \* the print(path) calls in progress, the innermost last

vars == <<options, explicitTabWidth, config, input, ast, result, op, frames>>

(***************************************************************************)
(* Bounds                                                                  *)
(***************************************************************************)
MaxStrLen == 3      \* longest string literal / comment text enumerated
MaxEntries == 3     \* most entries of an enumerated object or array literal

(***************************************************************************)
(* Small helpers                                                           *)
(***************************************************************************)
Has(n, f) == f \in DOMAIN n

Last(s) == s[Len(s)]

RECURSIVE Cat(_)
\* the JavaScript string made of the given pieces
Cat(s) == IF s = <<>> THEN "" ELSE Head(s) \o Cat(Tail(s))

RECURSIVE Spaces(_)
Spaces(k) == IF k <= 0 THEN "" ELSE " " \o Spaces(k - 1)

RECURSIVE SeqsUpTo(_, _)
\* all sequences over S of length at most k
SeqsUpTo(S, k) ==
  IF k = 0 THEN {<<>>}
  ELSE LET shorter == SeqsUpTo(S, k - 1)
       IN  shorter \cup {Append(s, c) : s \in shorter, c \in S}

(***************************************************************************)
(* Document model (./pp)                                                   *)
(***************************************************************************)
fromString(s) == [t |-> "text", s |-> s]

line == [t |-> "line", kind |-> "line"]
softline == [t |-> "line", kind |-> "soft"]
hardline == [t |-> "line", kind |-> "hard"]
literalline == [t |-> "line", kind |-> "literal"]

\* an exception in flight: what the evaluation of a document expression
\* yields when one of its sub-expressions threw.  It remembers the value
\* options.tabWidth had when it was thrown and the assignments to AST
\* nodes performed before it.
throw(msg, opts) ==
  [t |-> "throw", msg |-> msg, tabWidth |-> opts.tabWidth, assigned |-> {}]

\* the record that printMethod assigned node.value of the object at addr
assigned(addr) == [t |-> "assigned", id |-> addr]

IsThrow(d) == d.t = "throw"

RECURSIVE Assigned(_)
\* the nodes whose `value` was assigned while the document was built
Assigned(d) ==
  CASE d.t = "assigned" -> {d.id}
    [] d.t = "throw" -> d.assigned
    [] d.t = "concat" -> UNION {Assigned(d.parts[i]) : i \in DOMAIN d.parts}
    [] d.t \in {"indent", "group"} -> Assigned(d.contents)
    [] OTHER -> {}

\* JavaScript evaluates the elements of an array literal left to right: the
\* first element that throws ends the evaluation
concat(parts) ==
  IF \E i \in DOMAIN parts : IsThrow(parts[i])
  THEN LET i == CHOOSE k \in DOMAIN parts :
                  /\ IsThrow(parts[k])
                  /\ \A j \in 1..(k - 1) : ~IsThrow(parts[j])
       IN  [parts[i] EXCEPT !.assigned =
              @ \cup UNION {Assigned(parts[j]) : j \in 1..(i - 1)}]
  ELSE [t |-> "concat", parts |-> parts]

\* the value of an expression that builds d after the documents `first`
\* were computed: a throw among them comes first, and a throw in d happens
\* after their effects
evaluated(first, d) ==
  IF \E i \in DOMAIN first : IsThrow(first[i])
  THEN concat(first)
  ELSE IF IsThrow(d)
       THEN [d EXCEPT !.assigned =
               @ \cup UNION {Assigned(first[j]) : j \in DOMAIN first}]
       ELSE d

indent(n, d) ==
  IF IsThrow(d) THEN d ELSE [t |-> "indent", n |-> n, contents |-> d]

group(d) ==
  IF IsThrow(d) THEN d ELSE [t |-> "group", contents |-> d, exclusive |-> FALSE]

multilineGroup(d) ==
  IF IsThrow(d) THEN d ELSE [t |-> "group", contents |-> d, exclusive |-> TRUE]

RECURSIVE Interleave(_, _)
Interleave(sep, docs) ==
  IF Len(docs) <= 1 THEN docs
  ELSE <<Head(docs), sep>> \o Interleave(sep, Tail(docs))

join(sep, docs) == concat(Interleave(sep, docs))

\* whether a text is made of blanks only
IsBlank(s) == s \in {"", " ", "  "}

RECURSIVE getFirstString(_)
\* the first text of a document that is not blank, "" when there is none
getFirstString(d) ==
  CASE d.t = "text" -> IF IsBlank(d.s) THEN "" ELSE d.s
    [] d.t = "concat" ->
         IF \E i \in DOMAIN d.parts : getFirstString(d.parts[i]) # ""
         THEN getFirstString(d.parts[
                CHOOSE i \in DOMAIN d.parts :
                  /\ getFirstString(d.parts[i]) # ""
                  /\ \A j \in 1..(i - 1) : getFirstString(d.parts[j]) = ""])
         ELSE ""
    [] d.t \in {"indent", "group"} -> getFirstString(d.contents)
    [] OTHER -> ""

RECURSIVE hasHardLine(_)
hasHardLine(d) ==
  CASE d.t = "line" -> d.kind \in {"hard", "literal"}
    [] d.t = "concat" -> \E i \in DOMAIN d.parts : hasHardLine(d.parts[i])
    [] d.t \in {"indent", "group"} -> hasHardLine(d.contents)
    [] OTHER -> FALSE

RECURSIVE isEmpty(_)
isEmpty(d) ==
  CASE d.t = "text" -> d.s = ""
    [] d.t = "concat" -> \A i \in DOMAIN d.parts : isEmpty(d.parts[i])
    [] d.t = "assigned" -> TRUE
    [] OTHER -> FALSE

(***************************************************************************)
(* Renderer (./pp print)                                                   *)
(***************************************************************************)
\* the token a broken line emits: a newline and the current indentation
NL(ind) == "\n" \o Spaces(ind)

RECURSIVE FlatWidth(_)
\* the width of a document rendered flat
FlatWidth(d) ==
  CASE d.t = "text" -> Len(d.s)
    [] d.t = "line" -> IF d.kind = "line" THEN 1 ELSE 0
    [] d.t = "concat" ->
         IF d.parts = <<>> THEN 0
         ELSE FlatWidth(Head(d.parts))
                + FlatWidth([t |-> "concat", parts |-> Tail(d.parts)])
    [] d.t \in {"indent", "group"} -> FlatWidth(d.contents)
    [] OTHER -> 0

\* the fits test: no Hard line inside, and the flat rendering stays within
\* the print width
Fits(d, col, width) == ~hasHardLine(d) /\ col + FlatWidth(d) <= width

RECURSIVE Render(_, _, _, _, _)
\* render d in the given mode at indentation ind, continuing the state st
\* (the tokens emitted so far and the current column)
Render(d, flat, ind, st, width) ==
  CASE d.t = "text" ->
         IF d.s = "" THEN st
         ELSE [out |-> Append(st.out, d.s), col |-> st.col + Len(d.s)]
    [] d.t = "line" ->
         CASE d.kind = "literal" -> [out |-> Append(st.out, "\n"), col |-> 0]
           [] d.kind = "hard" -> [out |-> Append(st.out, NL(ind)), col |-> ind]
           [] d.kind = "soft" ->
                IF flat THEN st
                ELSE [out |-> Append(st.out, NL(ind)), col |-> ind]
           [] OTHER ->
                IF flat THEN [out |-> Append(st.out, " "), col |-> st.col + 1]
                ELSE [out |-> Append(st.out, NL(ind)), col |-> ind]
    [] d.t = "concat" ->
         IF d.parts = <<>> THEN st
         ELSE LET next == Render(Head(d.parts), flat, ind, st, width)
              IN  IF next.col < 0 THEN next
                  ELSE Render([t |-> "concat", parts |-> Tail(d.parts)],
                              flat, ind, next, width)
    [] d.t = "indent" -> Render(d.contents, flat, ind + d.n, st, width)
    [] d.t = "group" ->
         Render(d.contents, flat \/ Fits(d.contents, st.col, width),
                ind, st, width)
    [] OTHER -> st

\* pp.print(width, doc): the tokens of the rendered text
Tokens(d, width) ==
  Render(d, FALSE, 0, [out |-> <<>>, col |-> 0], width).out

printDoc(width, d) == Cat(Tokens(d, width))

(***************************************************************************)
(* Path cursor (./fast-path) and ./util                                    *)
(***************************************************************************)
\* A path is the stack of frames from the root to the current node; a
\* frame names the node and the field (and index) it occupies in its owner.
from(root) == <<[node |-> root, name |-> "root", index |-> 0]>>

getValue(path) == Last(path).node

getName(path) == Last(path).name

NoNode == [type |-> "<none>"]

getParentNode(path) ==
  IF Len(path) > 1 THEN path[Len(path) - 1].node ELSE NoNode

Child(path, f) ==
  Append(path, [node |-> getValue(path)[f], name |-> f, index |-> 0])

Elem(path, f, i) ==
  Append(path, [node |-> getValue(path)[f][i], name |-> f, index |-> i])

\* a boolean field that is present and true
Flag(n, f) == Has(n, f) /\ n[f]

\* a list field that is present and not empty
NonEmpty(n, f) == Has(n, f) /\ Len(n[f]) > 0

isExportDeclaration(n) ==
  n.type \in {"ExportDeclaration", "ExportDefaultDeclaration",
              "ExportDefaultSpecifier", "DeclareExportDeclaration",
              "ExportNamedDeclaration", "ExportAllDeclaration"}

\* the enclosing export declaration when the node is its `declaration`
getParentExportDeclaration(path) ==
  IF getName(path) = "declaration" /\ isExportDeclaration(getParentNode(path))
  THEN getParentNode(path)
  ELSE NoNode

PRECEDENCE(operator) ==
  CASE operator \in {"||"} -> 1
    [] operator \in {"&&"} -> 2
    [] operator \in {"==", "!=", "===", "!=="} -> 6
    [] operator \in {"<", ">", "<=", ">="} -> 7
    [] operator \in {"+", "-"} -> 9
    [] operator \in {"*", "/", "%"} -> 10
    [] OTHER -> 0

\* whether the node, printed bare inside its parent, would parse differently
needsParens(path) ==
  LET n == getValue(path)
      parent == getParentNode(path)
      name == getName(path)
  IN  CASE n.type \in {"ObjectExpression", "FunctionExpression"} ->
             parent.type = "ExpressionStatement" /\ name = "expression"
        [] n.type = "SequenceExpression" ->
             parent.type \in {"CallExpression", "NewExpression"}
               /\ name = "arguments"
        [] n.type \in {"BinaryExpression", "LogicalExpression"} ->
             /\ parent.type \in {"BinaryExpression", "LogicalExpression"}
             /\ \/ PRECEDENCE(parent.operator) > PRECEDENCE(n.operator)
                \/ /\ PRECEDENCE(parent.operator) = PRECEDENCE(n.operator)
                   /\ name = "right"
        [] OTHER -> FALSE

(***************************************************************************)
(* String literals (src/printer.js)                                        *)
(***************************************************************************)
RECURSIVE swapQuotes(_)
swapQuotes(str) ==
  IF str = <<>> THEN <<>>
  ELSE LET m == Head(str)
       IN  <<(IF m = "\"" THEN "'" ELSE IF m = "'" THEN "\"" ELSE m)>>
             \o swapQuotes(Tail(str))

RECURSIVE JSONescape(_)
JSONescape(str) ==
  IF str = <<>> THEN <<>>
  ELSE LET c == Head(str)
       IN  (CASE c = "\"" -> <<"\\", "\"">>
              [] c = "\\" -> <<"\\", "\\">>
              [] c = "\n" -> <<"\\", "n">>
              [] OTHER -> <<c>>)
             \o JSONescape(Tail(str))

\* JSON.stringify of a string
JSONstringify(str) == <<"\"">> \o JSONescape(str) \o <<"\"">>

\* nodeStr with the comparison relaxed: on a tie the single quote wins
nodeStrTiesSingle(str, opts) ==
  CASE opts.quote = "auto" ->
         LET double == JSONstringify(str)
             single == swapQuotes(JSONstringify(swapQuotes(str)))
         IN  IF Len(double) >= Len(single) THEN single ELSE double
    [] opts.quote = "single" -> swapQuotes(JSONstringify(swapQuotes(str)))
    [] OTHER -> JSONstringify(str)

\* nodeStr whose `single` case leaves out the inner swapQuotes
nodeStrSingleUnswapped(str, opts) ==
  CASE opts.quote = "auto" ->
         LET double == JSONstringify(str)
             single == swapQuotes(JSONstringify(swapQuotes(str)))
         IN  IF Len(double) > Len(single) THEN single ELSE double
    [] opts.quote = "single" -> swapQuotes(JSONstringify(str))
    [] OTHER -> JSONstringify(str)

nodeStr(str, opts) ==
  CASE opts.quote = "auto" ->
         LET double == JSONstringify(str)
             single == swapQuotes(JSONstringify(swapQuotes(str)))
         IN  IF Len(double) > Len(single) THEN single ELSE double
    [] opts.quote = "single" -> swapQuotes(JSONstringify(swapQuotes(str)))
    [] OTHER -> JSONstringify(str)

(***************************************************************************)
(* AST conventions                                                         *)
(*                                                                         *)
(* A node is a record with a `type` tag and the fields of its kind; an     *)
(* absent (undefined/null) field is absent from the record.  A Literal's   *)
(* value is [kind |-> "string", chars |-> <<...>>] or                      *)
(* [kind |-> "number", raw |-> "1"].  A node that carries a source         *)
(* location has loc |-> [guessTabWidth |-> w].  ObjectMethod and           *)
(* ClassMethod nodes carry an `addr` naming the object they are; a         *)
(* reference to that object is [ref |-> addr].                             *)
(***************************************************************************)
Null == [type |-> "<null>"]

LiteralTypes ==
  {"Literal", "StringLiteral", "NumericLiteral", "BooleanLiteral",
   "NullLiteral", "RegExpLiteral"}

\* the context of one translation: the options object as it is now, the
\* Printer's explicitTabWidth, and which callback genericPrint was given
\* ("printWithComments" by print, "printGenerically" by printGenerically)
Ctx(opts, explicit, cb) == [options |-> opts, explicit |-> explicit, print |-> cb]

\* an assertion that lets the failing shape through
AssertionSkipped(ctx) == fromString("")

\* assert.* and namedTypes.*.assert failing
AssertionError(ctx) == throw("AssertionError", ctx.options)

RECURSIVE print(_, _)
RECURSIVE genericPrint(_, _)
RECURSIVE genericPrintNoParens(_, _)

\* the `print` callback of genericPrint applied to a path.  The trees
\* carry no comments, so printComments(path, f) is f(path).
callback(path, ctx) ==
  IF ctx.print = "printWithComments"
  THEN print(path, ctx)
  ELSE genericPrint(path, ctx)

\* path.call(print, f)
call(path, ctx, f) ==
  IF Has(getValue(path), f)
  THEN callback(Child(path, f), ctx)
  ELSE fromString("")

\* path.map(print, f)
map(path, ctx, f) ==
  IF Has(getValue(path), f)
  THEN [i \in 1..Len(getValue(path)[f]) |-> callback(Elem(path, f, i), ctx)]
  ELSE <<>>

RECURSIVE KeptStatements(_, _)
\* the indices, from i on, of the statements printStatementSequence prints
KeptStatements(stmts, i) ==
  IF i > Len(stmts) THEN <<>>
  ELSE IF stmts[i] = Null \/ stmts[i].type = "EmptyStatement"
       THEN KeptStatements(stmts, i + 1)
       ELSE <<i>> \o KeptStatements(stmts, i + 1)

\* printStatementSequence without the test for EmptyStatement
printStatementSequenceKeepEmpty(path, ctx, f) ==
  LET stmts == getValue(path)[f]
      kept == SelectSeq([i \in 1..Len(stmts) |-> i], LAMBDA i : stmts[i] # Null)
      printed == [k \in 1..Len(kept) |-> callback(Elem(path, f, kept[k]), ctx)]
  IN  join(hardline, printed)

\* printStatementSequence on the list path.f
printStatementSequence(path, ctx, f) ==
  LET kept == KeptStatements(getValue(path)[f], 1)
      printed == [k \in 1..Len(kept) |-> callback(Elem(path, f, kept[k]), ctx)]
  IN  join(hardline, printed)

\* a clause kept on the line of its head whatever it starts with
adjustClauseSameLine(clause, opts) == concat(<<fromString(" "), clause>>)

adjustClause(clause, opts) ==
  IF getFirstString(clause) = "{"
  THEN concat(<<fromString(" "), clause>>)
  ELSE indent(opts.tabWidth, concat(<<hardline, clause>>))

printFunctionParams(path, ctx) ==
  LET fun == getValue(path)
      printed == map(path, ctx, "params")
      rest == IF Has(fun, "rest")
              THEN <<concat(<<fromString("..."), call(path, ctx, "rest")>>)>>
              ELSE <<>>
  IN  group(join(concat(<<fromString(","), line>>), printed \o rest))

printReturnType(path, ctx) ==
  LET n == getValue(path)
  IN  concat(<<call(path, ctx, "returnType")>>
             \o (IF Has(n, "predicate")
                 THEN <<fromString(IF Has(n, "returnType") THEN " " ELSE ": "),
                        call(path, ctx, "predicate")>>
                 ELSE <<>>))

\* printArgumentsList without the rule for a lone object argument
printArgumentsListAlwaysBroken(path, ctx) ==
  LET printed == map(path, ctx, "arguments")
      args ==
        IF Len(printed) = 0 THEN fromString("")
        ELSE concat(<<
               indent(ctx.options.tabWidth,
                      concat(<<softline,
                               join(concat(<<fromString(","), line>>), printed)>>)),
               softline>>)
  IN  multilineGroup(concat(<<fromString("("), args, fromString(")")>>))

printArgumentsList(path, ctx) ==
  LET printed == map(path, ctx, "arguments")
      args ==
        IF Len(printed) = 0 THEN fromString("")
        ELSE IF Len(printed) = 1 /\ getFirstString(printed[1]) = "{"
        THEN printed[1]
        ELSE concat(<<
               indent(ctx.options.tabWidth,
                      concat(<<softline,
                               join(concat(<<fromString(","), line>>), printed)>>)),
               softline>>)
  IN  multilineGroup(concat(<<fromString("("), args, fromString(")")>>))

printMethod(path, ctx) ==
  LET node == getValue(path)
      kind == IF Has(node, "kind") THEN node.kind ELSE ""
      isObjMethod == node.type \in {"ObjectMethod", "ClassMethod"}
      \* node.value = node: from here on the path reads node.value as node
      value == IF isObjMethod THEN node
               ELSE IF Has(node, "value") THEN node.value ELSE Null
      valuePath == IF isObjMethod
                   THEN Append(path, [node |-> node, name |-> "value", index |-> 0])
                   ELSE Child(path, "value")
      assignment == IF isObjMethod THEN <<assigned(node.addr)>> ELSE <<>>
      key == call(path, ctx, "key")
  IN  IF ~isObjMethod /\ value.type # "FunctionExpression"
      THEN AssertionError(ctx)
      ELSE IF kind \notin {"", "init", "method", "constructor", "get", "set"}
      THEN concat(assignment \o <<AssertionError(ctx)>>)
      ELSE concat(
        assignment
        \o (IF Flag(value, "async") THEN <<fromString("async ")>> ELSE <<>>)
        \o (IF kind \in {"", "init", "method", "constructor"}
            THEN (IF Flag(value, "generator") THEN <<fromString("*")>> ELSE <<>>)
            ELSE <<fromString(kind), fromString(" ")>>)
        \o <<IF Flag(node, "computed")
             THEN concat(<<fromString("["), key, fromString("]")>>)
             ELSE key,
             call(valuePath, ctx, "typeParameters"),
             fromString("("),
             printFunctionParams(valuePath, ctx),
             fromString(")"),
             printReturnType(valuePath, ctx),
             fromString(" "),
             call(valuePath, ctx, "body")>>)

printObjectMethod(path, ctx) ==
  LET objMethod == getValue(path)
      key == call(path, ctx, "key")
  IN  IF \/ Flag(objMethod, "method")
         \/ (Has(objMethod, "kind") /\ objMethod.kind \in {"get", "set"})
      THEN printMethod(path, ctx)
      ELSE concat(
        (IF Flag(objMethod, "async") THEN <<fromString("async ")>> ELSE <<>>)
        \o (IF Flag(objMethod, "generator") THEN <<fromString("*")>> ELSE <<>>)
        \o (IF Flag(objMethod, "computed")
            THEN <<fromString("["), key, fromString("]")>>
            ELSE <<key>>)
        \o <<fromString("("),
             printFunctionParams(path, ctx),
             fromString(")"),
             printReturnType(path, ctx),
             fromString(" "),
             call(path, ctx, "body")>>)

(***************************************************************************)
(* genericPrintNoParens, one definition per group of case labels           *)
(***************************************************************************)
printProgram(path, ctx) ==
  LET n == getValue(path)
      directives == map(path, ctx, "directives")
  IN  concat(
        [k \in 1..(3 * Len(directives)) |->
           CASE k % 3 = 1 -> directives[(k + 2) \div 3]
             [] k % 3 = 2 -> fromString(";")
             [] OTHER -> line]
        \o <<printStatementSequence(path, ctx, "body"), hardline>>)

printBlockStatement(path, ctx) ==
  LET n == getValue(path)
      naked == printStatementSequence(path, ctx, "body")
      directives == map(path, ctx, "directives")
  IN  evaluated(<<naked>>, concat(
        <<fromString("{")>>
        \o [k \in 1..Len(directives) |->
              indent(ctx.options.tabWidth,
                     concat(<<line, directives[k], fromString(";"), line>>))]
        \o <<indent(ctx.options.tabWidth, concat(<<hardline, naked>>)),
             hardline, fromString("}")>>))

printFunction(path, ctx) ==
  LET n == getValue(path)
  IN  group(concat(
        (IF Flag(n, "async") THEN <<fromString("async ")>> ELSE <<>>)
        \o <<fromString("function")>>
        \o (IF Flag(n, "generator") THEN <<fromString("*")>> ELSE <<>>)
        \o (IF Has(n, "id")
            THEN <<fromString(" "), call(path, ctx, "id")>> ELSE <<>>)
        \o <<call(path, ctx, "typeParameters"),
             group(concat(<<
               fromString("("),
               indent(ctx.options.tabWidth,
                      concat(<<softline, printFunctionParams(path, ctx)>>)),
               softline,
               fromString(")")>>)),
             printReturnType(path, ctx),
             fromString(" "),
             call(path, ctx, "body")>>))

printImportSpecifier(path, ctx) ==
  LET n == getValue(path)
  IN  IF Has(n, "imported")
      THEN concat(
             <<call(path, ctx, "imported")>>
             \o (IF Has(n, "local") /\ n.local.name # n.imported.name
                 THEN <<fromString(" as "), call(path, ctx, "local")>>
                 ELSE <<>>))
      ELSE IF Has(n, "id")
      THEN concat(
             <<call(path, ctx, "id")>>
             \o (IF Has(n, "name")
                 THEN <<fromString(" as "), call(path, ctx, "name")>>
                 ELSE <<>>))
      ELSE concat(<<>>)

RECURSIVE importSpecifiersBraceEach(_, _, _, _)
\* importSpecifiers opening a brace before every named specifier
importSpecifiersBraceEach(path, ctx, i, foundImportSpecifier) ==
  LET n == getValue(path)
      curly == ctx.options.objectCurlySpacing
  IN  IF i > Len(n.specifiers)
      THEN (IF foundImportSpecifier
            THEN <<fromString(IF curly THEN " }" ELSE "}")>>
            ELSE <<>>)
      ELSE
        LET value == n.specifiers[i]
            comma == IF i > 1 THEN <<fromString(", ")>> ELSE <<>>
        IN  IF value.type \in {"ImportDefaultSpecifier",
                               "ImportNamespaceSpecifier"}
            THEN IF foundImportSpecifier
                 THEN comma \o <<AssertionError(ctx)>>
                 ELSE comma \o <<callback(Elem(path, "specifiers", i), ctx)>>
                        \o importSpecifiersBraceEach(path, ctx, i + 1, FALSE)
            ELSE IF value.type # "ImportSpecifier"
                 THEN comma \o <<AssertionError(ctx)>>
                 ELSE comma
                        \o <<fromString(IF curly THEN "{ " ELSE "{")>>
                        \o <<callback(Elem(path, "specifiers", i), ctx)>>
                        \o importSpecifiersBraceEach(path, ctx, i + 1, TRUE)

RECURSIVE importSpecifiers(_, _, _, _)
\* the parts the loop over n.specifiers pushes from the i-th specifier on,
\* and the closing brace after it
importSpecifiers(path, ctx, i, foundImportSpecifier) ==
  LET n == getValue(path)
      curly == ctx.options.objectCurlySpacing
  IN  IF i > Len(n.specifiers)
      THEN (IF foundImportSpecifier
            THEN <<fromString(IF curly THEN " }" ELSE "}")>>
            ELSE <<>>)
      ELSE
        LET value == n.specifiers[i]
            comma == IF i > 1 THEN <<fromString(", ")>> ELSE <<>>
        IN  IF value.type \in {"ImportDefaultSpecifier",
                               "ImportNamespaceSpecifier"}
            THEN IF foundImportSpecifier
                 THEN comma \o <<AssertionError(ctx)>>
                 ELSE comma \o <<callback(Elem(path, "specifiers", i), ctx)>>
                        \o importSpecifiers(path, ctx, i + 1, FALSE)
            ELSE IF value.type # "ImportSpecifier"
                 THEN comma \o <<AssertionError(ctx)>>
                 ELSE comma
                        \o (IF ~foundImportSpecifier
                            THEN <<fromString(IF curly THEN "{ " ELSE "{")>>
                            ELSE <<>>)
                        \o <<callback(Elem(path, "specifiers", i), ctx)>>
                        \o importSpecifiers(path, ctx, i + 1, TRUE)

printImportDeclaration(path, ctx) ==
  LET n == getValue(path)
  IN  concat(
        <<fromString("import ")>>
        \o (IF Has(n, "importKind") /\ n.importKind # "value"
            THEN <<fromString(n.importKind \o " ")>> ELSE <<>>)
        \o (IF NonEmpty(n, "specifiers")
            THEN importSpecifiers(path, ctx, 1, FALSE) \o <<fromString(" from ")>>
            ELSE <<>>)
        \o <<call(path, ctx, "source"), fromString(";")>>)

\* printObject with every separator and its line in a group of their own
printObjectOwnGroups(path, ctx) ==
  LET n == getValue(path)
      isTypeAnnotation == n.type = "ObjectTypeAnnotation"
      separator == fromString(IF isTypeAnnotation THEN ";" ELSE ",")
      leftBrace == fromString(IF Flag(n, "exact") THEN "{|" ELSE "{")
      rightBrace == fromString(IF Flag(n, "exact") THEN "|}" ELSE "}")
      printed == (IF isTypeAnnotation
                  THEN map(path, ctx, "indexers") \o map(path, ctx, "callProperties")
                  ELSE <<>>)
                 \o map(path, ctx, "properties")
      props == [k \in 1..Len(printed) |-> group(printed[k])]
  IN  IF Len(props) = 0
      THEN fromString("{}")
      ELSE multilineGroup(concat(<<
             leftBrace,
             indent(ctx.options.tabWidth,
                    concat(<<line,
                             join(group(concat(<<separator, line>>)), props)>>)),
             line,
             rightBrace,
             call(path, ctx, "typeAnnotation")>>))

printObject(path, ctx) ==
  LET n == getValue(path)
      isTypeAnnotation == n.type = "ObjectTypeAnnotation"
      separator == fromString(IF isTypeAnnotation THEN ";" ELSE ",")
      leftBrace == fromString(IF Flag(n, "exact") THEN "{|" ELSE "{")
      rightBrace == fromString(IF Flag(n, "exact") THEN "|}" ELSE "}")
      printed == (IF isTypeAnnotation
                  THEN map(path, ctx, "indexers") \o map(path, ctx, "callProperties")
                  ELSE <<>>)
                 \o map(path, ctx, "properties")
      props == [k \in 1..Len(printed) |-> group(printed[k])]
  IN  IF Len(props) = 0
      THEN fromString("{}")
      ELSE multilineGroup(concat(<<
             leftBrace,
             indent(ctx.options.tabWidth,
                    concat(<<line, join(concat(<<separator, line>>), props)>>)),
             line,
             rightBrace,
             call(path, ctx, "typeAnnotation")>>))

printProperty(path, ctx) ==
  LET n == getValue(path)
      key == call(path, ctx, "key")
  IN  IF \/ Flag(n, "method")
         \/ (Has(n, "kind") /\ n.kind \in {"get", "set"})
      THEN printMethod(path, ctx)
      ELSE concat(
             (IF Flag(n, "computed")
              THEN <<fromString("["), key, fromString("]")>>
              ELSE <<key>>)
             \o (IF ~Flag(n, "shorthand")
                 THEN <<fromString(": "), call(path, ctx, "value")>>
                 ELSE <<>>))

\* printArray with every separator and its line in a group of their own
printArrayOwnGroups(path, ctx) ==
  LET n == getValue(path)
  IN  concat(<<
        multilineGroup(concat(<<
          fromString("["),
          indent(ctx.options.tabWidth,
                 concat(<<line,
                          join(group(concat(<<fromString(","), line>>)),
                               map(path, ctx, "elements"))>>)),
          line,
          fromString("]")>>))>>
        \o (IF Has(n, "typeAnnotation")
            THEN <<call(path, ctx, "typeAnnotation")>> ELSE <<>>))

printArray(path, ctx) ==
  LET n == getValue(path)
  IN  concat(<<
        multilineGroup(concat(<<
          fromString("["),
          indent(ctx.options.tabWidth,
                 concat(<<line,
                          join(concat(<<fromString(","), line>>),
                               map(path, ctx, "elements"))>>)),
          line,
          fromString("]")>>))>>
        \o (IF Has(n, "typeAnnotation")
            THEN <<call(path, ctx, "typeAnnotation")>> ELSE <<>>))

printLiteral(path, ctx) ==
  LET n == getValue(path)
  IN  IF n.value.kind # "string"
      THEN fromString(n.value.raw)
      ELSE fromString(Cat(nodeStr(n.value.chars, ctx.options)))

printVariableDeclaration(path, ctx) ==
  LET n == getValue(path)
      printed == map(path, ctx, "declarations")
      parentNode == getParentNode(path)
  IN  multilineGroup(concat(
        <<fromString(n.kind),
          fromString(" "),
          printed[1],
          indent(ctx.options.tabWidth,
                 concat([k \in 1..(Len(printed) - 1) |->
                           concat(<<fromString(","), line, printed[k + 1]>>)]))>>
        \o (IF parentNode.type \notin {"ForStatement", "ForInStatement",
                                       "ForOfStatement", "ForAwaitStatement"}
            THEN <<fromString(";")>> ELSE <<>>)))

\* printIfStatement with `else` always glued to the consequent
printIfStatementGluedElse(path, ctx) ==
  LET n == getValue(path)
      con == adjustClause(call(path, ctx, "consequent"), ctx.options)
  IN  evaluated(<<con>>, concat(
        <<fromString("if ("),
          group(concat(<<
            indent(ctx.options.tabWidth,
                   concat(<<softline, call(path, ctx, "test")>>)),
            softline>>)),
          fromString(")"),
          con>>
        \o (IF Has(n, "alternate")
            THEN <<fromString(" else"),
                   adjustClause(call(path, ctx, "alternate"), ctx.options)>>
            ELSE <<>>)))

printIfStatement(path, ctx) ==
  LET n == getValue(path)
      con == adjustClause(call(path, ctx, "consequent"), ctx.options)
  IN  evaluated(<<con>>, concat(
        <<fromString("if ("),
          group(concat(<<
            indent(ctx.options.tabWidth,
                   concat(<<softline, call(path, ctx, "test")>>)),
            softline>>)),
          fromString(")"),
          con>>
        \o (IF Has(n, "alternate")
            THEN <<fromString(IF getFirstString(con) = "{"
                              THEN " else" ELSE "\nelse"),
                   adjustClause(call(path, ctx, "alternate"), ctx.options)>>
            ELSE <<>>)))

printLoop(path, ctx) ==
  LET n == getValue(path)
      body == adjustClause(call(path, ctx, "body"), ctx.options)
  IN  CASE n.type = "ForStatement" ->
             concat(<<
               fromString("for ("),
               group(concat(<<
                 indent(ctx.options.tabWidth, concat(<<
                   softline,
                   call(path, ctx, "init"),
                   fromString(";"),
                   line,
                   call(path, ctx, "test"),
                   fromString(";"),
                   line,
                   call(path, ctx, "update")>>)),
                 softline>>)),
               fromString(")"),
               body>>)
        [] n.type = "WhileStatement" ->
             concat(<<
               fromString("while ("),
               call(path, ctx, "test"),
               fromString(")"),
               body>>)
        [] n.type = "ForInStatement" ->
             concat(<<
               fromString(IF Flag(n, "each") THEN "for each (" ELSE "for ("),
               call(path, ctx, "left"),
               fromString(" in "),
               call(path, ctx, "right"),
               fromString(")"),
               body>>)
        [] n.type = "ForOfStatement" ->
             concat(<<
               fromString("for ("),
               call(path, ctx, "left"),
               fromString(" of "),
               call(path, ctx, "right"),
               fromString(")"),
               body>>)
        [] OTHER ->
             concat(<<
               fromString("for await ("),
               call(path, ctx, "left"),
               fromString(" of "),
               call(path, ctx, "right"),
               fromString(")"),
               body>>)

IsSpace(c) == c \in {" ", "\n", "\t"}

RECURSIVE trimStart(_)
trimStart(chars) ==
  IF chars # <<>> /\ IsSpace(Head(chars)) THEN trimStart(Tail(chars)) ELSE chars

RECURSIVE trimEnd(_)
trimEnd(chars) ==
  IF chars # <<>> /\ IsSpace(Last(chars))
  THEN trimEnd(SubSeq(chars, 1, Len(chars) - 1))
  ELSE chars

\* String.prototype.trim, and replace(/^\s+|\s+$/g, "")
trim(chars) == trimEnd(trimStart(chars))

\* str.replace(/\n/, hardline): the first newline is replaced by the
\* replacement converted to a string; hardline is an object
replaceNewline(chars) ==
  IF \E i \in DOMAIN chars : chars[i] = "\n"
  THEN LET i == CHOOSE k \in DOMAIN chars :
                  chars[k] = "\n" /\ \A j \in 1..(k - 1) : chars[j] # "\n"
       IN  Cat(SubSeq(chars, 1, i - 1)) \o "[object Object]"
             \o Cat(SubSeq(chars, i + 1, Len(chars)))
  ELSE Cat(chars)

printJSXChild(path, ctx, i) ==
  LET child == getValue(path).children[i]
      isText == child.type \in LiteralTypes /\ child.value.kind = "string"
  IN  IF isText /\ \E k \in DOMAIN child.value.chars :
                     ~IsSpace(child.value.chars[k])
      THEN fromString(replaceNewline(trim(child.value.chars)))
      ELSE IF isText /\ \E k \in DOMAIN child.value.chars :
                          child.value.chars[k] = "\n"
      THEN hardline
      ELSE callback(Elem(path, "children", i), ctx)

printJSXElement(path, ctx) ==
  LET n == getValue(path)
      openingLines == call(path, ctx, "openingElement")
      children == IF Has(n, "children")
                  THEN [i \in 1..Len(n.children) |-> printJSXChild(path, ctx, i)]
                  ELSE <<>>
      mostChildren == SubSeq(children, 1, Len(children) - 1)
      lastChild == IF Len(children) > 0 THEN Last(children) ELSE fromString("")
      closingLines == call(path, ctx, "closingElement")
  IN  IF Flag(n.openingElement, "selfClosing")
      THEN IF Has(n, "closingElement")
           THEN evaluated(<<openingLines>>, AssertionError(ctx))
           ELSE openingLines
      ELSE evaluated(<<openingLines, concat(children), closingLines>>,
             concat(<<
               openingLines,
               indent(ctx.options.tabWidth, concat(mostChildren)),
               lastChild,
               closingLines>>))

printJSXOpeningElement(path, ctx) ==
  LET n == getValue(path)
      attrs == map(path, ctx, "attributes")
  IN  group(concat(<<
        fromString("<"),
        call(path, ctx, "name"),
        concat([k \in 1..Len(attrs) |-> concat(<<fromString(" "), attrs[k]>>)]),
        fromString(IF Flag(n, "selfClosing") THEN "/>" ELSE ">")>>))

printReturnStatement(path, ctx) ==
  LET n == getValue(path)
      arg == call(path, ctx, "argument")
  IN  concat(
        <<fromString("return")>>
        \o (IF Has(n, "argument")
            THEN IF n.argument.type = "JSXElement" /\ hasHardLine(arg)
                 THEN <<fromString(" ("),
                        indent(ctx.options.tabWidth, concat(<<hardline, arg>>)),
                        hardline,
                        fromString(")")>>
                 ELSE <<fromString(" "), arg>>
            ELSE <<>>)
        \o <<fromString(";")>>)

\* the supertypes that genericPrintNoParens declares unprintable
printExportSpecifier(path, ctx) ==
  LET n == getValue(path)
  IN  IF Has(n, "local")
      THEN concat(
             <<call(path, ctx, "local")>>
             \o (IF Has(n, "exported") /\ n.exported.name # n.local.name
                 THEN <<fromString(" as "), call(path, ctx, "exported")>>
                 ELSE <<>>))
      ELSE IF Has(n, "id")
      THEN concat(
             <<call(path, ctx, "id")>>
             \o (IF Has(n, "name")
                 THEN <<fromString(" as "), call(path, ctx, "name")>>
                 ELSE <<>>))
      ELSE concat(<<>>)

\* namedTypes.Declaration.assert(decl) holds for every kind whose rule
\* calls printExportDeclaration
printExportDeclaration(path, ctx) ==
  LET decl == getValue(path)
      curly == ctx.options.objectCurlySpacing
  IN  concat(
        <<fromString("export ")>>
        \o (IF Flag(decl, "default") \/ decl.type = "ExportDefaultDeclaration"
            THEN <<fromString("default ")>> ELSE <<>>)
        \o (IF Has(decl, "declaration")
            THEN <<call(path, ctx, "declaration")>>
            ELSE IF NonEmpty(decl, "specifiers")
            THEN (IF /\ Len(decl.specifiers) = 1
                     /\ decl.specifiers[1].type = "ExportBatchSpecifier"
                  THEN <<fromString("*")>>
                  ELSE <<fromString(IF curly THEN "{ " ELSE "{"),
                         join(fromString(", "), map(path, ctx, "specifiers")),
                         fromString(IF curly THEN " }" ELSE "}")>>)
                 \o (IF Has(decl, "source")
                     THEN <<fromString(" from "), call(path, ctx, "source")>>
                     ELSE <<>>)
            ELSE <<>>))

\* printFlowDeclaration with the `declare` token always put in front
printFlowDeclarationAlways(path, ctx, parts) ==
  concat(<<fromString("declare ")>> \o parts)

printFlowDeclaration(path, ctx, parts) ==
  LET parentExportDecl == getParentExportDeclaration(path)
  IN  IF parentExportDecl # NoNode
      THEN IF parentExportDecl.type # "DeclareExportDeclaration"
           THEN evaluated(parts, AssertionError(ctx))
           ELSE concat(parts)
      ELSE concat(<<fromString("declare ")>> \o parts)

\* the parts printClass returns
printClass(path, ctx) ==
  LET n == getValue(path)
  IN  <<fromString("class")>>
      \o (IF Has(n, "id")
          THEN <<fromString(" "), call(path, ctx, "id"),
                 call(path, ctx, "typeParameters")>>
          ELSE <<>>)
      \o (IF Has(n, "superClass")
          THEN <<fromString(" extends "), call(path, ctx, "superClass"),
                 call(path, ctx, "superTypeParameters")>>
          ELSE IF NonEmpty(n, "extends")
          THEN <<fromString(" extends "),
                 join(fromString(", "), map(path, ctx, "extends"))>>
          ELSE <<>>)
      \o (IF NonEmpty(n, "implements")
          THEN <<fromString(" implements "),
                 join(fromString(", "), map(path, ctx, "implements"))>>
          ELSE <<>>)
      \o <<fromString(" "), call(path, ctx, "body")>>

printClassBody(path, ctx) ==
  LET n == getValue(path)
  IN  IF Len(n.body) = 0 THEN fromString("{}")
      ELSE concat(<<
             fromString("{"),
             indent(ctx.options.tabWidth,
                    concat(<<hardline, printStatementSequence(path, ctx, "body")>>)),
             hardline,
             fromString("}")>>)

printSwitchCase(path, ctx) ==
  LET n == getValue(path)
  IN  concat(
        (IF Has(n, "test")
         THEN <<fromString("case "), call(path, ctx, "test"), fromString(":")>>
         ELSE <<fromString("default:")>>)
        \o (IF Len(n.consequent) > 0
            THEN <<indent(ctx.options.tabWidth,
                          concat(<<hardline,
                                   printStatementSequence(path, ctx, "consequent")>>))>>
            ELSE <<>>))

\* DeclareInterface falls through to InterfaceDeclaration
printInterface(path, ctx) ==
  LET n == getValue(path)
  IN  concat(
        (IF n.type = "DeclareInterface" THEN <<fromString("declare ")>> ELSE <<>>)
        \o <<fromString("interface "),
             call(path, ctx, "id"),
             call(path, ctx, "typeParameters"),
             fromString(" ")>>
        \o (IF Len(n.extends) > 0
            THEN <<fromString("extends "),
                   join(fromString(", "), map(path, ctx, "extends"))>>
            ELSE <<>>)
        \o <<fromString(" "), call(path, ctx, "body")>>)

\* path.getParentNode(1)
getGrandParentNode(path) ==
  IF Len(path) > 2 THEN path[Len(path) - 2].node ELSE NoNode

printTypeAlias(path, ctx) ==
  LET n == getValue(path)
      parent == getGrandParentNode(path)
  IN  concat(
        (IF n.type = "DeclareTypeAlias" \/ parent.type = "DeclareModule"
         THEN <<fromString("declare ")>> ELSE <<>>)
        \o <<fromString("type "),
             call(path, ctx, "id"),
             call(path, ctx, "typeParameters"),
             fromString(" = "),
             call(path, ctx, "right"),
             fromString(";")>>)

RECURSIVE split(_, _)
\* chars.split(sep): the pieces between the occurrences of sep, as strings
split(chars, sep) ==
  IF \A i \in 1..Len(chars) : chars[i] # sep
  THEN <<Cat(chars)>>
  ELSE LET k == CHOOSE i \in 1..Len(chars) :
                  /\ chars[i] = sep
                  /\ \A j \in 1..(i - 1) : chars[j] # sep
       IN  <<Cat(SubSeq(chars, 1, k - 1))>>
           \o split(SubSeq(chars, k + 1, Len(chars)), sep)

\* the TemplateElement rule with the pieces joined by Hard lines
printTemplateElementHardline(path, ctx) ==
  LET pieces == split(getValue(path).value.raw, "\n")
  IN  join(hardline, [k \in 1..Len(pieces) |-> fromString(pieces[k])])

printTemplateElement(path, ctx) ==
  LET pieces == split(getValue(path).value.raw, "\n")
  IN  join(literalline, [k \in 1..Len(pieces) |-> fromString(pieces[k])])

\* the grave accent (U+0060) that delimits a template literal; a TLA+ string
\* cannot spell that character, so the model writes it as a caret
backquote == "^"

RECURSIVE Flattened(_)
\* the elements of a list of lists, in order
Flattened(lists) ==
  IF lists = <<>> THEN <<>> ELSE Head(lists) \o Flattened(Tail(lists))

printTemplateLiteral(path, ctx) ==
  LET n == getValue(path)
      expressions == map(path, ctx, "expressions")
      quasis == map(path, ctx, "quasis")
  IN  evaluated(expressions, concat(
        <<fromString(backquote)>>
        \o Flattened([i \in 1..Len(quasis) |->
              <<quasis[i]>>
              \o (IF i - 1 < Len(expressions)
                  THEN <<fromString("${"), expressions[i], fromString("}")>>
                  ELSE <<>>)])
        \o <<fromString(backquote)>>))

AbstractTypes ==
  {"Node", "Printable", "SourceLocation", "Position", "Statement", "Function",
   "Pattern", "Expression", "Declaration", "Specifier", "NamedSpecifier",
   "Comment", "MemberTypeAnnotation", "Type"}

\* the kinds listed in the switch without a rule
UnhandledTypes ==
  {"ClassHeritage", "ComprehensionBlock", "ComprehensionExpression", "Glob",
   "GeneratorExpression", "LetStatement", "LetExpression", "GraphExpression",
   "GraphIndexExpression", "XMLDefaultDeclaration", "XMLAnyName",
   "XMLQualifiedIdentifier", "XMLFunctionQualifiedIdentifier",
   "XMLAttributeSelector", "XMLFilterExpression", "XML", "XMLElement",
   "XMLList", "XMLEscape", "XMLText", "XMLStartTag", "XMLEndTag",
   "XMLPointTag", "XMLName", "XMLAttribute", "XMLCdata", "XMLComment",
   "XMLProcessingInstruction"}

\* the kinds for which the switch has a rule
RuleTypes ==
  {"File", "Program", "Noop", "EmptyStatement", "ExpressionStatement",
   "ParenthesizedExpression", "AssignmentExpression", "BinaryExpression",
   "LogicalExpression", "AssignmentPattern", "MemberExpression",
   "MetaProperty", "BindExpression", "Path", "Identifier", "SpreadElement",
   "SpreadElementPattern", "RestProperty", "SpreadProperty",
   "SpreadPropertyPattern", "RestElement", "FunctionDeclaration",
   "FunctionExpression", "ArrowFunctionExpression", "MethodDefinition",
   "YieldExpression", "AwaitExpression", "ModuleDeclaration",
   "ImportSpecifier", "ExportSpecifier", "ExportBatchSpecifier",
   "ImportNamespaceSpecifier", "ImportDefaultSpecifier",
   "ExportDeclaration", "ExportDefaultDeclaration",
   "ExportNamedDeclaration", "ExportAllDeclaration",
   "ExportNamespaceSpecifier", "ExportDefaultSpecifier",
   "ImportDeclaration", "BlockStatement", "ReturnStatement",
   "CallExpression", "ObjectExpression", "ObjectPattern",
   "ObjectTypeAnnotation", "PropertyPattern", "ObjectProperty", "Property",
   "ClassMethod", "ObjectMethod", "Decorator", "ArrayExpression",
   "ArrayPattern", "SequenceExpression", "ThisExpression", "Super",
   "NullLiteral", "RegExpLiteral", "BooleanLiteral", "NumericLiteral",
   "StringLiteral", "Literal", "Directive", "DirectiveLiteral",
   "ModuleSpecifier", "UnaryExpression", "UpdateExpression",
   "ConditionalExpression", "NewExpression", "VariableDeclaration",
   "VariableDeclarator", "WithStatement", "IfStatement", "ForStatement",
   "WhileStatement", "ForInStatement", "ForOfStatement",
   "ForAwaitStatement", "DoWhileStatement", "DoExpression",
   "BreakStatement", "ContinueStatement", "LabeledStatement",
   "TryStatement", "CatchClause", "ThrowStatement", "SwitchStatement",
   "SwitchCase", "DebuggerStatement", "JSXAttribute", "JSXIdentifier",
   "JSXNamespacedName", "JSXMemberExpression", "JSXSpreadAttribute",
   "JSXExpressionContainer", "JSXElement", "JSXOpeningElement",
   "JSXClosingElement", "JSXText", "JSXEmptyExpression",
   "TypeAnnotatedIdentifier", "ClassBody", "ClassPropertyDefinition",
   "ClassProperty", "ClassDeclaration", "ClassExpression",
   "TemplateElement", "TemplateLiteral", "TaggedTemplateExpression",
   "CommentBlock", "Block", "CommentLine", "Line", "TypeAnnotation",
   "TupleTypeAnnotation", "ExistentialTypeParam", "ExistsTypeAnnotation",
   "EmptyTypeAnnotation", "AnyTypeAnnotation", "MixedTypeAnnotation",
   "ArrayTypeAnnotation", "BooleanTypeAnnotation",
   "NumericLiteralTypeAnnotation", "BooleanLiteralTypeAnnotation",
   "DeclareClass", "DeclareFunction", "DeclareModule",
   "DeclareModuleExports", "DeclareVariable", "DeclareExportAllDeclaration",
   "DeclareExportDeclaration", "FunctionTypeAnnotation",
   "FunctionTypeParam", "GenericTypeAnnotation", "DeclareInterface",
   "InterfaceDeclaration", "ClassImplements", "InterfaceExtends",
   "IntersectionTypeAnnotation", "NullableTypeAnnotation",
   "NullLiteralTypeAnnotation", "ThisTypeAnnotation",
   "NumberTypeAnnotation", "ObjectTypeCallProperty", "ObjectTypeIndexer",
   "ObjectTypeProperty", "QualifiedTypeIdentifier",
   "StringLiteralTypeAnnotation", "NumberLiteralTypeAnnotation",
   "StringTypeAnnotation", "DeclareTypeAlias", "TypeAlias",
   "TypeCastExpression", "TypeParameterDeclaration",
   "TypeParameterInstantiation", "TypeParameter", "TypeofTypeAnnotation",
   "UnionTypeAnnotation", "VoidTypeAnnotation", "NullTypeAnnotation",
   "InferredPredicate", "DeclaredPredicate"}

\* throw new Error("unprintable type: " + ...)
unprintableType(opts) == throw("unprintable type", opts)

\* a default that hands back an empty document instead
unknownTypeFallback(opts) == fromString("")

\* the default of the switch: throw new Error("unknown type: " + ...)
unknownType(opts) == throw("unknown type", opts)

genericPrintNoParens(path, ctx) ==
  LET n == getValue(path)
      tabWidth == ctx.options.tabWidth
  IN
  CASE n = Null -> fromString("")
    [] n.type = "File" -> call(path, ctx, "program")
    [] n.type = "Program" -> printProgram(path, ctx)
    [] n.type \in {"Noop", "EmptyStatement"} -> fromString("")
    [] n.type = "TemplateElement" -> printTemplateElement(path, ctx)
    [] n.type = "TemplateLiteral" -> printTemplateLiteral(path, ctx)
    [] n.type = "ExpressionStatement" ->
         concat(<<call(path, ctx, "expression"), fromString(";")>>)
    [] n.type = "ParenthesizedExpression" ->
         concat(<<fromString("("), call(path, ctx, "expression"), fromString(")")>>)
    [] n.type = "AssignmentExpression" ->
         group(concat(<<
           call(path, ctx, "left"),
           fromString(" "),
           fromString(n.operator),
           fromString(" "),
           call(path, ctx, "right")>>))
    [] n.type \in {"BinaryExpression", "LogicalExpression"} ->
         group(concat(<<
           call(path, ctx, "left"),
           fromString(" "),
           fromString(n.operator),
           indent(tabWidth, concat(<<line, call(path, ctx, "right")>>))>>))
    [] n.type = "MemberExpression" ->
         concat(
           <<call(path, ctx, "object")>>
           \o (IF Flag(n, "computed")
               THEN <<fromString("["), call(path, ctx, "property"), fromString("]")>>
               ELSE <<fromString("."), call(path, ctx, "property")>>))
    [] n.type = "Identifier" ->
         concat(<<
           fromString(n.name),
           fromString(IF Flag(n, "optional") THEN "?" ELSE ""),
           call(path, ctx, "typeAnnotation")>>)
    [] n.type \in {"FunctionDeclaration", "FunctionExpression"} ->
         printFunction(path, ctx)
    [] n.type = "MethodDefinition" ->
         concat(
           (IF Flag(n, "static") THEN <<fromString("static ")>> ELSE <<>>)
           \o <<printMethod(path, ctx)>>)
    [] n.type = "ImportSpecifier" -> printImportSpecifier(path, ctx)
    [] n.type = "ExportSpecifier" -> printExportSpecifier(path, ctx)
    [] n.type = "ExportBatchSpecifier" -> fromString("*")
    [] n.type \in {"ExportDeclaration", "ExportDefaultDeclaration",
                   "ExportNamedDeclaration"} ->
         printExportDeclaration(path, ctx)
    [] n.type = "ExportAllDeclaration" ->
         concat(
           <<fromString("export *")>>
           \o (IF Has(n, "exported")
               THEN <<fromString(" as "), call(path, ctx, "exported")>>
               ELSE <<>>)
           \o <<fromString(" from "), call(path, ctx, "source")>>)
    [] n.type = "ExportNamespaceSpecifier" ->
         concat(<<fromString("* as "), call(path, ctx, "exported")>>)
    [] n.type = "ExportDefaultSpecifier" -> call(path, ctx, "exported")
    [] n.type = "ImportNamespaceSpecifier" ->
         concat(
           <<fromString("* as ")>>
           \o (IF Has(n, "local") THEN <<call(path, ctx, "local")>>
               ELSE IF Has(n, "id") THEN <<call(path, ctx, "id")>>
               ELSE <<>>))
    [] n.type = "ImportDefaultSpecifier" ->
         IF Has(n, "local") THEN call(path, ctx, "local")
         ELSE call(path, ctx, "id")
    [] n.type = "ImportDeclaration" -> printImportDeclaration(path, ctx)
    [] n.type = "BlockStatement" -> printBlockStatement(path, ctx)
    [] n.type = "ReturnStatement" -> printReturnStatement(path, ctx)
    [] n.type = "CallExpression" ->
         concat(<<call(path, ctx, "callee"), printArgumentsList(path, ctx)>>)
    [] n.type \in {"ObjectExpression", "ObjectPattern", "ObjectTypeAnnotation"} ->
         printObject(path, ctx)
    [] n.type \in {"ObjectProperty", "Property"} -> printProperty(path, ctx)
    [] n.type = "ClassMethod" ->
         concat(
           (IF Flag(n, "static") THEN <<fromString("static ")>> ELSE <<>>)
           \o <<printObjectMethod(path, ctx)>>)
    [] n.type = "ObjectMethod" -> printObjectMethod(path, ctx)
    [] n.type = "Decorator" ->
         concat(<<fromString("@"), call(path, ctx, "expression")>>)
    [] n.type \in {"ArrayExpression", "ArrayPattern"} -> printArray(path, ctx)
    [] n.type = "ThisExpression" -> fromString("this")
    [] n.type \in {"BooleanLiteral", "NumericLiteral", "StringLiteral", "Literal"} ->
         printLiteral(path, ctx)
    [] n.type = "NewExpression" ->
         concat(
           <<fromString("new "), call(path, ctx, "callee")>>
           \o (IF Has(n, "arguments")
               THEN <<printArgumentsList(path, ctx)>> ELSE <<>>))
    [] n.type = "VariableDeclaration" -> printVariableDeclaration(path, ctx)
    [] n.type = "VariableDeclarator" ->
         IF Has(n, "init")
         THEN concat(<<call(path, ctx, "id"), fromString(" = "),
                       call(path, ctx, "init")>>)
         ELSE call(path, ctx, "id")
    [] n.type = "IfStatement" -> printIfStatement(path, ctx)
    [] n.type \in {"ForStatement", "WhileStatement", "ForInStatement",
                   "ForOfStatement", "ForAwaitStatement"} ->
         printLoop(path, ctx)
    [] n.type = "JSXAttribute" ->
         concat(
           <<call(path, ctx, "name")>>
           \o (IF Has(n, "value")
               THEN <<fromString("="), call(path, ctx, "value")>> ELSE <<>>))
    [] n.type = "JSXIdentifier" -> fromString(n.name)
    [] n.type = "JSXExpressionContainer" ->
         concat(<<fromString("{"), call(path, ctx, "expression"), fromString("}")>>)
    [] n.type = "JSXElement" -> printJSXElement(path, ctx)
    [] n.type = "JSXOpeningElement" -> printJSXOpeningElement(path, ctx)
    [] n.type = "JSXClosingElement" ->
         concat(<<fromString("</"), call(path, ctx, "name"), fromString(">")>>)
    [] n.type = "TypeAnnotation" ->
         IF Has(n, "typeAnnotation")
         THEN concat(
                (IF n.typeAnnotation.type # "FunctionTypeAnnotation"
                 THEN <<fromString(": ")>> ELSE <<>>)
                \o <<call(path, ctx, "typeAnnotation")>>)
         ELSE fromString("")
    [] n.type = "AnyTypeAnnotation" -> fromString("any")
    [] n.type = "NumberTypeAnnotation" -> fromString("number")
    [] n.type = "StringTypeAnnotation" -> fromString("string")
    [] n.type = "ObjectTypeProperty" ->
         concat(<<
           fromString(IF Flag(n, "static") THEN "static " ELSE ""),
           fromString(IF ~Has(n, "variance") THEN ""
                      ELSE IF n.variance = "plus" THEN "+"
                      ELSE IF n.variance = "minus" THEN "-" ELSE ""),
           call(path, ctx, "key"),
           fromString(IF Flag(n, "optional") THEN "?" ELSE ""),
           fromString(IF /\ ~Has(n, "variance")
                         /\ ~Flag(n, "optional")
                         /\ n.value.type = "FunctionTypeAnnotation"
                      THEN "" ELSE ": "),
           call(path, ctx, "value")>>)
    [] n.type = "SwitchStatement" ->
         concat(<<
           fromString("switch ("),
           call(path, ctx, "discriminant"),
           fromString(") {"),
           hardline,
           join(hardline, map(path, ctx, "cases")),
           hardline,
           fromString("}")>>)
    [] n.type = "SwitchCase" -> printSwitchCase(path, ctx)
    [] n.type = "ClassBody" -> printClassBody(path, ctx)
    [] n.type \in {"ClassDeclaration", "ClassExpression"} ->
         concat(printClass(path, ctx))
    [] n.type = "DeclareClass" ->
         printFlowDeclaration(path, ctx, printClass(path, ctx))
    [] n.type = "DeclareFunction" ->
         printFlowDeclaration(path, ctx,
           <<fromString("function "), call(path, ctx, "id"), fromString(";")>>)
    [] n.type = "DeclareModule" ->
         printFlowDeclaration(path, ctx,
           <<fromString("module "), call(path, ctx, "id"), fromString(" "),
             call(path, ctx, "body")>>)
    [] n.type = "DeclareModuleExports" ->
         printFlowDeclaration(path, ctx,
           <<fromString("module.exports"), call(path, ctx, "typeAnnotation"),
             fromString(";")>>)
    [] n.type = "DeclareVariable" ->
         printFlowDeclaration(path, ctx,
           <<fromString("var "), call(path, ctx, "id"), fromString(";")>>)
    [] n.type = "DeclareExportAllDeclaration" ->
         concat(<<fromString("declare export * from "), call(path, ctx, "source")>>)
    [] n.type = "DeclareExportDeclaration" ->
         concat(<<fromString("declare "), printExportDeclaration(path, ctx)>>)
    [] n.type \in {"DeclareInterface", "InterfaceDeclaration"} ->
         printInterface(path, ctx)
    [] n.type \in {"DeclareTypeAlias", "TypeAlias"} -> printTypeAlias(path, ctx)
    [] n.type \in AbstractTypes -> unprintableType(ctx.options)
    [] n.type \notin RuleTypes -> unknownType(ctx.options)

\* genericPrint once linesWithoutParens is computed
genericPrintParts(path, ctx, linesWithoutParens) ==
  LET node == getValue(path)
      ownDecorators ==
        /\ NonEmpty(node, "decorators")
        /\ getParentExportDeclaration(path) = NoNode
      declDecorators ==
        /\ isExportDeclaration(node)
        /\ Has(node, "declaration")
        /\ Has(node.declaration, "decorators")
      decorators ==
        IF ownDecorators THEN map(path, ctx, "decorators")
        ELSE IF declDecorators
        THEN map(Child(path, "declaration"), ctx, "decorators")
        ELSE <<>>
      parens == ~ownDecorators /\ ~declDecorators /\ needsParens(path)
  IN  IF IsThrow(linesWithoutParens) THEN linesWithoutParens
      ELSE IF node = Null \/ isEmpty(linesWithoutParens) THEN linesWithoutParens
      ELSE evaluated(<<linesWithoutParens>>, concat(
             (IF parens THEN <<fromString("(")>> ELSE <<>>)
             \o [k \in 1..(2 * Len(decorators)) |->
                   IF k % 2 = 1 THEN decorators[(k + 1) \div 2] ELSE line]
             \o <<linesWithoutParens>>
             \o (IF parens THEN <<fromString(")")>> ELSE <<>>)))

genericPrint(path, ctx) ==
  genericPrintParts(path, ctx, genericPrintNoParens(path, ctx))

\* genericPrint(path, options, printWithComments)
printRootGenerically(path, ctx) ==
  genericPrint(path, [ctx EXCEPT !.print = "printWithComments"])

maybeReprint(path, ctx) == printRootGenerically(path, ctx)

\* print(path) of the Printer.  The caller goes on with its own ctx, in
\* which options.tabWidth is oldTabWidth again; a throw leaves the guessed
\* width in place.
print(path, ctx) ==
  LET node == getValue(path)
  IN  maybeReprint(path,
        IF ctx.explicit = 0 /\ node # Null /\ Has(node, "loc")
        THEN [ctx EXCEPT !.options.tabWidth = node.loc.guessTabWidth]
        ELSE ctx)

\* printGenerically(path) of the Printer
printGenerically(path, ctx) ==
  genericPrint(path, [ctx EXCEPT !.print = "printGenerically"])

(***************************************************************************)
(* Template dialect (src/printer-handlebars.js)                            *)
(***************************************************************************)
voidTags ==
  {"area", "base", "br", "col", "embed", "hr", "img", "input", "link", "meta",
   "param", "source", "track", "wbr"}

\* text.includes(pair[1] + pair[2])
includes(text, pair) ==
  \E i \in 1..(Len(text) - 1) : text[i] = pair[1] /\ text[i + 1] = pair[2]

\* chars.replace(/\s/g, " "): every whitespace character on its own
collapseWhitespaceEach(chars) ==
  [i \in DOMAIN chars |-> IF IsSpace(chars[i]) THEN " " ELSE chars[i]]

RECURSIVE collapseWhitespace(_)
\* chars.replace(/\s+/g, " ")
collapseWhitespace(chars) ==
  IF chars = <<>> THEN <<>>
  ELSE IF IsSpace(Head(chars))
       THEN <<" ">> \o collapseWhitespace(trimStart(chars))
       ELSE <<Head(chars)>> \o collapseWhitespace(Tail(chars))

\* printMustacheComment with the closing delimiter never switched
printMustacheCommentPlainClose(n) ==
  LET text == trim(n.value)
      hasBraces == includes(text, <<"{", "{">>) \/ includes(text, <<"}", "}">>)
      open == IF hasBraces THEN "{{!--" ELSE "{{!"
  IN  group(concat(<<fromString(open), line, fromString(Cat(text)), line,
                     fromString("}}")>>))

printMustacheComment(n) ==
  LET text == trim(n.value)
      hasBraces == includes(text, <<"{", "{">>) \/ includes(text, <<"}", "}">>)
      open == IF hasBraces THEN "{{!--" ELSE "{{!"
      close == IF hasBraces THEN "--}}" ELSE "}}"
  IN  group(concat(<<fromString(open), line, fromString(Cat(text)), line,
                     fromString(close)>>))

\* the kinds printPath has a rule for
TemplateTypes ==
  {"Program", "AttrNode", "ElementNode", "TextNode", "MustacheStatement",
   "MustacheCommentStatement", "PathExpression"}

\* the default of the switch: throw new Error("unsupported handlebars type: ...")
unsupportedType(opts) == throw("unsupported handlebars type", opts)

RECURSIVE printPath(_, _)

\* path.each(childPath => children.push(childPath.call(print)), childProp)
printChildren(childProp, path, opts) ==
  LET list == getValue(path)[childProp]
  IN  concat([i \in 1..Len(list) |-> printPath(Elem(path, childProp, i), opts)])

printAttributes(path, opts) ==
  LET node == getValue(path)
  IN  concat(<<
        fromString(IF Len(node.attributes) > 0 THEN " " ELSE ""),
        indent(opts.tabWidth,
               join(line, [i \in 1..Len(node.attributes) |->
                             printPath(Elem(path, "attributes", i), opts)]))>>)

printAttrNode(path, opts) ==
  LET n == getValue(path)
      value == n.value
  IN  IF value.type = "TextNode"
      THEN IF /\ value.loc.start.line = value.loc.end.line
              /\ value.loc.start.column = value.loc.end.column
           THEN fromString(n.name)
           ELSE concat(<<fromString(n.name), fromString("=\""),
                         fromString(Cat(value.chars)), fromString("\"")>>)
      ELSE throw("unsupported handlebars attribute type", opts)

\* the ElementNode rule with the closing tag emitted for every element
printElementNodeAlwaysClosed(path, opts) ==
  LET n == getValue(path)
      selfClose == IF Has(n, "name") /\ n.name \in voidTags THEN ">" ELSE " />"
      children == printChildren("children", path, opts)
  IN  group(concat(<<
        fromString("<"),
        fromString(n.tag),
        printAttributes(path, opts),
        fromString(IF Len(n.children) > 0 THEN ">" ELSE selfClose),
        indent(opts.tabWidth, children),
        concat(<<softline, fromString("</"), fromString(n.tag),
                 fromString(">")>>)>>))

printElementNode(path, opts) ==
  LET n == getValue(path)
      selfClose == IF Has(n, "name") /\ n.name \in voidTags THEN ">" ELSE " />"
      children == printChildren("children", path, opts)
  IN  group(concat(<<
        fromString("<"),
        fromString(n.tag),
        printAttributes(path, opts),
        fromString(IF Len(n.children) > 0 THEN ">" ELSE selfClose),
        indent(opts.tabWidth, children),
        IF Len(n.children) > 0
        THEN concat(<<softline, fromString("</"), fromString(n.tag),
                      fromString(">")>>)
        ELSE hardline>>))

printPath(path, opts) ==
  LET n == getValue(path)
  IN  CASE n = Null -> fromString("")
        [] n.type = "Program" -> printChildren("body", path, opts)
        [] n.type = "AttrNode" -> printAttrNode(path, opts)
        [] n.type = "ElementNode" -> printElementNode(path, opts)
        [] n.type = "TextNode" ->
             fromString(Cat(trim(collapseWhitespace(n.chars))))
        [] n.type = "MustacheStatement" ->
             group(concat(<<fromString("{{"),
                            printPath(Child(path, "path"), opts),
                            fromString("}}")>>))
        [] n.type = "MustacheCommentStatement" -> printMustacheComment(n)
        [] n.type = "PathExpression" ->
             join(fromString("."),
                  [i \in 1..Len(n.parts) |-> fromString(n.parts[i])])
        [] OTHER -> unsupportedType(opts)

(***************************************************************************)
(* Template dialect, earlier version (src/unnamed/part_000)                *)
(***************************************************************************)
EarlyTemplateTypes == {"Program", "MustacheCommentStatement"}

unsupportedTypeEarly(opts) == throw("unsupported handlebars type", opts)

RECURSIVE printPathEarly(_, _)

printChildrenEarly(childProp, path, opts) ==
  LET list == getValue(path)[childProp]
  IN  concat([i \in 1..Len(list) |->
                printPathEarly(Elem(path, childProp, i), opts)])

printPathEarly(path, opts) ==
  LET n == getValue(path)
  IN  CASE n = Null -> fromString("")
        [] n.type = "Program" -> printChildrenEarly("body", path, opts)
        [] n.type = "MustacheCommentStatement" ->
             LET text == trim(n.value)
                 hasBraces == \/ includes(text, <<"{", "{">>)
                              \/ includes(text, <<"}", "}">>)
                 open == IF hasBraces THEN "{{!--" ELSE "{{!"
                 close == IF hasBraces THEN "--}}" ELSE "}}"
             IN  group(concat(<<fromString(open), line, fromString(Cat(text)),
                                line, fromString(close)>>))
        [] OTHER -> unsupportedTypeEarly(opts)

(***************************************************************************)
(* AST schema: which fields of a node hold nodes                           *)
(***************************************************************************)
IsListField(n, f) ==
  \/ f \in {"arguments", "properties", "elements", "declarations",
            "specifiers", "params", "children", "attributes", "decorators",
            "directives", "indexers", "callProperties", "cases", "extends",
            "implements", "quasis", "expressions"}
  \/ f = "body" /\ n.type \in {"Program", "BlockStatement", "ClassBody"}
  \/ f = "consequent" /\ n.type = "SwitchCase"

IsNodeField(n, f) ==
  \/ f \in {"program", "expression", "left", "right", "object", "property",
            "callee", "test", "alternate", "init", "update",
            "key", "argument", "openingElement", "closingElement",
            "typeAnnotation", "source", "local", "imported", "returnType",
            "rest", "declaration", "path", "exported", "discriminant",
            "superClass"}
  \/ f = "consequent" /\ n.type # "SwitchCase"
  \/ f = "body" /\ n.type \notin {"Program", "BlockStatement", "ClassBody"}
  \/ f = "id"
  \/ f = "name" /\ n.type \in {"JSXOpeningElement", "JSXClosingElement",
                               "JSXAttribute", "ImportSpecifier",
                               "ExportSpecifier"}
  \/ f = "value" /\ n.type \in {"Property", "ObjectProperty", "MethodDefinition",
                                "JSXAttribute", "ObjectTypeProperty", "AttrNode"}

RECURSIVE Nodes(_)
RECURSIVE NodesOfList(_, _)
RECURSIVE NodesOfFields(_, _)

\* the node and all the nodes below it, as a list
Nodes(n) == <<n>> \o NodesOfFields(n, DOMAIN n)

NodesOfList(list, i) ==
  IF i > Len(list) THEN <<>>
  ELSE Nodes(list[i]) \o NodesOfList(list, i + 1)

NodesOfFields(n, fields) ==
  IF fields = {} THEN <<>>
  ELSE LET f == CHOOSE g \in fields : TRUE
       IN  (IF IsListField(n, f) THEN NodesOfList(n[f], 1)
            ELSE IF IsNodeField(n, f) THEN Nodes(n[f])
            ELSE <<>>)
           \o NodesOfFields(n, fields \ {f})

\* some node of the tree satisfies P
SomeNode(a, P(_)) == \E i \in DOMAIN Nodes(a) : P(Nodes(a)[i])

RECURSIVE Apply(_, _)
\* the tree after `node.value = node` was performed on the objects in addrs
Apply(n, addrs) ==
  LET m == [f \in DOMAIN n |->
              IF IsListField(n, f)
              THEN [i \in DOMAIN n[f] |-> Apply(n[f][i], addrs)]
              ELSE IF IsNodeField(n, f) THEN Apply(n[f], addrs)
              ELSE n[f]]
  IN  IF Has(n, "addr") /\ n.addr \in addrs
      THEN [f \in DOMAIN m \cup {"value"} |->
              IF f = "value" THEN [ref |-> n.addr] ELSE m[f]]
      ELSE m

(***************************************************************************)
(* Options (./options normalize)                                           *)
(***************************************************************************)
DefaultTabWidth == 2
DefaultPrintWidth == 80

normalizeOptions(original) ==
  [tabWidth |-> IF original.tabWidth # 0 THEN original.tabWidth
                ELSE DefaultTabWidth,
   printWidth |-> original.printWidth,
   wrapColumn |-> original.printWidth,
   quote |-> original.quote,
   objectCurlySpacing |-> original.objectCurlySpacing,
   reuseWhitespace |-> TRUE]

(***************************************************************************)
(* Trees handed to the printers                                            *)
(***************************************************************************)
Id(name) == [type |-> "Identifier", name |-> name]
Num(raw) == [type |-> "Literal", value |-> [kind |-> "number", raw |-> raw]]
Str(chars) == [type |-> "Literal", value |-> [kind |-> "string", chars |-> chars]]
ExprStmt(e) == [type |-> "ExpressionStatement", expression |-> e]
Call(callee, args) ==
  [type |-> "CallExpression", callee |-> callee, arguments |-> args]
Block(stmts) == [type |-> "BlockStatement", body |-> stmts]
Program(stmts) == [type |-> "Program", body |-> stmts]
If(test, con) == [type |-> "IfStatement", test |-> test, consequent |-> con]
IfElse(test, con, alt) ==
  [type |-> "IfStatement", test |-> test, consequent |-> con, alternate |-> alt]
Prop(key, value) == [type |-> "Property", key |-> key, value |-> value]
Obj(props) == [type |-> "ObjectExpression", properties |-> props]
Arr(elems) == [type |-> "ArrayExpression", elements |-> elems]
Bin(operator, l, r) ==
  [type |-> "BinaryExpression", operator |-> operator, left |-> l, right |-> r]
Var(id, init) ==
  [type |-> "VariableDeclaration", kind |-> "var",
   declarations |-> <<[type |-> "VariableDeclarator", id |-> id, init |-> init]>>]
Fn(params, stmts) ==
  [type |-> "FunctionExpression", params |-> params, body |-> Block(stmts)]
\* a node that carries a source location whose lines guess the tab width w
At(w, n) == [f \in DOMAIN n \cup {"loc"} |->
               IF f = "loc" THEN [guessTabWidth |-> w] ELSE n[f]]

\* `if(a)b();`
IfCall == If(Id("a"), ExprStmt(Call(Id("b"), <<>>)))

ObjectMethodNode(addr, method) ==
  [type |-> "ObjectMethod", addr |-> addr, key |-> Id("m"), params |-> <<>>,
   method |-> method, kind |-> "method", body |-> Block(<<>>)]

ClassMethodNode(addr, kind) ==
  [type |-> "ClassMethod", addr |-> addr, key |-> Id("m"), params |-> <<>>,
   kind |-> kind, body |-> Block(<<>>)]

MethodDefinitionNode(kind, value) ==
  [type |-> "MethodDefinition", kind |-> kind, key |-> Id("m"), value |-> value]

ImportDecl(specs) ==
  [type |-> "ImportDeclaration", specifiers |-> specs,
   source |-> Str(<<"m">>)]
DefaultSpec == [type |-> "ImportDefaultSpecifier", local |-> Id("Foo")]
NamespaceSpec == [type |-> "ImportNamespaceSpecifier", local |-> Id("ns")]
NamedSpec(imported, local) ==
  [type |-> "ImportSpecifier", imported |-> Id(imported), local |-> Id(local)]

JSXName(name) == [type |-> "JSXIdentifier", name |-> name]
JSXOpening(selfClosing) ==
  [type |-> "JSXOpeningElement", name |-> JSXName("p"), attributes |-> <<>>,
   selfClosing |-> selfClosing]
JSXClosing == [type |-> "JSXClosingElement", name |-> JSXName("p")]
JSXSelfClosed == [type |-> "JSXElement", openingElement |-> JSXOpening(TRUE)]
JSXSelfClosedWithClosing ==
  [type |-> "JSXElement", openingElement |-> JSXOpening(TRUE),
   closingElement |-> JSXClosing]
JSXOpen ==
  [type |-> "JSXElement", openingElement |-> JSXOpening(FALSE),
   children |-> <<>>, closingElement |-> JSXClosing]

\* type tags without a translation rule: supertypes, listed kinds without
\* a rule, a tag the switch does not list
NoRuleTags == {"Node", "Statement", "Expression", "LetStatement", "XMLElement",
               "Bogus"}

\* the trees the clients of the Printer hand to it
Trees ==
  {IfCall, Program(<<IfCall>>),
   Program(<<IfElse(Id("a"), Block(<<ExprStmt(Id("b"))>>), ExprStmt(Id("c")))>>),
   Var(Id("o"), Obj(<<ObjectMethodNode(1, TRUE)>>)),
   Var(Id("o"), Obj(<<ObjectMethodNode(1, FALSE)>>)),
   At(4, Var(Id("o"), Obj(<<ObjectMethodNode(1, TRUE), [type |-> "Bogus"]>>))),
   ClassMethodNode(2, "get"), ClassMethodNode(2, "method"),
   ClassMethodNode(2, "bogus"),
   [ObjectMethodNode(1, TRUE) EXCEPT !.kind = "bogus"],
   MethodDefinitionNode("method", Fn(<<>>, <<>>)),
   MethodDefinitionNode("bogus", Fn(<<>>, <<>>)),
   MethodDefinitionNode("get", Id("f")),
   [type |-> "MethodDefinition", kind |-> "method", key |-> Id("m")],
   [type |-> "Property", key |-> Id("m"), method |-> TRUE, value |-> Fn(<<>>, <<>>)],
   [type |-> "Property", key |-> Id("m"), kind |-> "get", value |-> Num("1")],
   ImportDecl(<<DefaultSpec>>), ImportDecl(<<NamedSpec("a", "b")>>),
   ImportDecl(<<DefaultSpec, NamedSpec("a", "a")>>),
   ImportDecl(<<NamedSpec("a", "a"), DefaultSpec>>),
   ImportDecl(<<NamedSpec("a", "a"), NamespaceSpec>>),
   JSXSelfClosed, JSXSelfClosedWithClosing, JSXOpen,
   Program(<<ExprStmt(JSXSelfClosedWithClosing)>>),
   [type |-> "Property", key |-> Id("m"), method |-> TRUE, kind |-> "bogus",
    value |-> Fn(<<>>, <<>>)],
   Var(Id("o"), Obj(<<[type |-> "Property", key |-> Id("m"), kind |-> "set",
                       value |-> Id("f")]>>)),
   At(8, Program(<<ExprStmt(Id("a")), At(4, ExprStmt([type |-> "Bogus"]))>>)),
   At(8, Program(<<If(Id("a"), Block(<<ExprStmt(Id("b"))>>))>>))}
  \cup {[type |-> tag] : tag \in NoRuleTags}
  \cup {Program(<<ExprStmt(Call(Id("f"), <<[type |-> tag]>>))>>) :
          tag \in NoRuleTags}

\* trees of the template dialect
TextNode(chars, startColumn, endColumn) ==
  [type |-> "TextNode", chars |-> chars,
   loc |-> [start |-> [line |-> 1, column |-> startColumn],
            end |-> [line |-> 1, column |-> endColumn]]]
AttrNode(name, value) == [type |-> "AttrNode", name |-> name, value |-> value]
\* an element as the parser builds it: the tag name is in `tag`
ElementNode(tag, attributes, children) ==
  [type |-> "ElementNode", tag |-> tag, attributes |-> attributes,
   children |-> children]
\* an element that also carries its tag name in a `name` field
NamedElementNode(tag, attributes, children) ==
  [type |-> "ElementNode", tag |-> tag, name |-> tag,
   attributes |-> attributes, children |-> children]
MustacheStatement(parts) ==
  [type |-> "MustacheStatement",
   path |-> [type |-> "PathExpression", parts |-> parts]]
MustacheComment(chars) == [type |-> "MustacheCommentStatement", value |-> chars]

NoTemplateRuleTags == {"BlockStatement", "PartialStatement", "Bogus"}

TemplateTrees ==
  {Program(<<ElementNode("div", <<>>, <<TextNode(<<"a">>, 5, 6)>>)>>),
   Program(<<ElementNode("br", <<>>, <<>>)>>),
   Program(<<MustacheStatement(<<"a", "b">>)>>),
   Program(<<MustacheComment(<<"a">>)>>),
   ElementNode("img", <<AttrNode("alt", TextNode(<<>>, 9, 9))>>, <<>>),
   ElementNode("p", <<AttrNode("id", MustacheStatement(<<"a">>))>>, <<>>)}
  \cup {[type |-> tag] : tag \in NoTemplateRuleTags}
  \cup {Program(<<ElementNode("div", <<>>, <<[type |-> tag]>>)>>) :
          tag \in NoTemplateRuleTags}
  \cup {Program(<<MustacheComment(<<"a">>), [type |-> tag]>>) :
          tag \in NoTemplateRuleTags}
  \cup {Program(<<MustacheComment(<<"a">>), ElementNode("div", <<>>, <<>>)>>)}

(***************************************************************************)
(* The Printer (src/printer.js)                                            *)
(***************************************************************************)
TabWidths == {0, 4}        \* originalOptions.tabWidth; 0: not given
PrintWidths == {DefaultPrintWidth, 8}

Init ==
  /\ explicitTabWidth \in TabWidths
  /\ \E w \in PrintWidths, curly \in BOOLEAN :
       options = normalizeOptions([tabWidth |-> explicitTabWidth,
                                   printWidth |-> w, quote |-> "double",
                                   objectCurlySpacing |-> curly])
  /\ config = options
  /\ input = Null
  /\ ast = Null
  /\ result = [status |-> "none"]
  /\ frames = <<>>
  /\ op = "new"

\* what a call that built `lines` leaves behind and hands back
Outcome(a, lines, width) ==
  /\ input' = a
  /\ ast' = Apply(a, Assigned(lines))
  /\ frames' = frames
  /\ result' = IF IsThrow(lines)
               THEN [status |-> "throw", msg |-> lines.msg]
               ELSE [status |-> "ok", doc |-> lines,
                     code |-> printDoc(width, lines)]

\* Printer.print(ast) once print(FastPath.from(ast), true) has built lines
PrinterPrinted(a, lines) ==
  /\ Outcome(a, lines, options.printWidth)
  /\ options' = IF IsThrow(lines)
                THEN [options EXCEPT !.tabWidth = lines.tabWidth]
                ELSE options
  /\ op' = "print"
  /\ UNCHANGED <<explicitTabWidth, config>>

\* Printer.print(ast)
PrinterPrint(a) ==
  PrinterPrinted(a, print(from(a),
                          Ctx(options, explicitTabWidth, "printWithComments")))

\* Printer.printGenerically(ast) once printGenerically(path) has built res
PrintedGenerically(a, cleared, res) ==
  /\ Outcome(a, res, options.wrapColumn)
  /\ options' = IF IsThrow(res) THEN cleared ELSE options
  /\ op' = "printGenerically"
  /\ UNCHANGED <<explicitTabWidth, config>>

PrintGenericallyCleared(a, cleared) ==
  PrintedGenerically(a, cleared,
                     printGenerically(from(a),
                                      Ctx(cleared, explicitTabWidth,
                                          "printGenerically")))

\* Printer.printGenerically(ast)
PrintGenerically(a) ==
  PrintGenericallyCleared(a, [options EXCEPT !.reuseWhitespace = FALSE])

\* the template translator applied to a tree, and its document rendered
PrintPath(a) ==
  /\ Outcome(a, printPath(from(a), options), options.printWidth)
  /\ op' = "printPath"
  /\ UNCHANGED <<options, explicitTabWidth, config>>

\* the same with the earlier version of the template translator
PrintPathEarly(a) ==
  /\ Outcome(a, printPathEarly(from(a), options), options.printWidth)
  /\ op' = "printPathEarly"
  /\ UNCHANGED <<options, explicitTabWidth, config>>

Next ==
  \/ \E a \in Trees : PrinterPrint(a)
  \/ \E a \in Trees : PrintGenerically(a)
  \/ \E a \in TemplateTrees : PrintPath(a)
  \/ \E a \in TemplateTrees : PrintPathEarly(a)

Spec == Init /\ [][Next]_vars

(***************************************************************************)
(* Properties of the Printer                                               *)
(***************************************************************************)
JsOps == {"print", "printGenerically"}

Aborted == result.status = "throw" /\ ~Has(result, "code") /\ ~Has(result, "doc")

\* the rule types of the translator that performed the last operation
RulesOf(o) ==
  CASE o \in JsOps -> RuleTypes
    [] o = "printPath" -> TemplateTypes
    [] OTHER -> EarlyTemplateTypes

WithoutRule(n) == n.type \notin RulesOf(op)

HasNodeWithoutRule == SomeNode(input, WithoutRule)

\* C1: in both translators a node whose type tag has no translation rule
\* aborts the whole print: the call throws and hands back no document and
\* no text, wherever in the tree the node is
C1_NoRuleAborts ==
  (op # "new" /\ HasNodeWithoutRule) => Aborted

C1_Witness ==
  /\ op = "print"
  /\ input.type = "Program"
  /\ SomeNode(input, LAMBDA n : n.type = "Bogus")
  /\ Aborted

\* C2 (as claimed): a print call, completed or aborted, leaves every field
\* of every node of the AST as it was
C2_AstNotMutated ==
  op \in JsOps => ast = input

\* the code a Printer just constructed with the same configuration prints
FreshCode(a) ==
  printDoc(config.printWidth,
           print(from(a), Ctx(config, explicitTabWidth, "printWithComments")))

\* C3 (as claimed): the code print(ast) yields depends only on ast and on
\* the configuration given at construction, whatever calls came before
C3_HistoryIndependent ==
  (op = "print" /\ result.status = "ok") => result.code = FreshCode(input)

\* the node is handed to printMethod
ReachesPrintMethod(n) ==
  \/ n.type = "MethodDefinition"
  \/ /\ n.type \in {"Property", "ObjectProperty", "ObjectMethod", "ClassMethod"}
     /\ Flag(n, "method") \/ (Has(n, "kind") /\ n.kind \in {"get", "set"})

ValueNotFunction(n) ==
  /\ ReachesPrintMethod(n)
  /\ n.type \notin {"ObjectMethod", "ClassMethod"}
  /\ ~Has(n, "value") \/ n.value.type # "FunctionExpression"

BadMethodKind(n) ==
  /\ ReachesPrintMethod(n)
  /\ Has(n, "kind")
  /\ n.kind \notin {"init", "method", "constructor", "get", "set"}

DefaultAfterNamed(n) ==
  /\ n.type = "ImportDeclaration"
  /\ Has(n, "specifiers")
  /\ \E i, j \in DOMAIN n.specifiers :
       /\ i < j
       /\ n.specifiers[i].type = "ImportSpecifier"
       /\ n.specifiers[j].type \in {"ImportDefaultSpecifier",
                                    "ImportNamespaceSpecifier"}

SelfClosingWithClosing(n) ==
  /\ n.type = "JSXElement"
  /\ Flag(n.openingElement, "selfClosing")
  /\ Has(n, "closingElement")

StructurallyInvalid(n) ==
  \/ ValueNotFunction(n)
  \/ BadMethodKind(n)
  \/ DefaultAfterNamed(n)
  \/ SelfClosingWithClosing(n)

\* C4: a node that fails a structural assertion (a method whose value is
\* not a function, a method kind that is none of the known ones, a default
\* or namespace import specifier after a named one, a self-closing JSX
\* element with a closing element) aborts the print, no document returned
C4_AssertionAborts ==
  (op \in JsOps /\ SomeNode(input, StructurallyInvalid)) => Aborted

C4_Witness ==
  /\ op = "print"
  /\ input.type = "VariableDeclaration"
  /\ SomeNode(input, ValueNotFunction)
  /\ Aborted

\* C8 (as claimed): `if(a)b();` prints as `if (a) b();` on one line
C8_IfOnOneLine ==
  (op \in JsOps /\ input = Program(<<IfCall>>)
     /\ options.printWidth = DefaultPrintWidth)
  => (result.status = "ok" /\ result.code = "if (a) b();\n")

\* C8 (amended): `if(a)b();` prints as `if (a)`, then `b();` on a line of
\* its own indented by the tab width, then the terminating newline
C8_IfBodyOnOwnLine ==
  (op \in JsOps /\ input = Program(<<IfCall>>)
     /\ options.printWidth = DefaultPrintWidth)
  => (/\ result.status = "ok"
      /\ result.code = "if (a)\n" \o Spaces(options.tabWidth) \o "b();\n")

C8_Witness ==
  /\ op = "print"
  /\ input = Program(<<IfCall>>)
  /\ options.printWidth = DefaultPrintWidth
  /\ result.status = "ok"

(***************************************************************************)
(* nodeStr on its own                                                      *)
(***************************************************************************)
QuoteChars == {"a", "'", "\"", "\\"}
Quotes == {"auto", "single", "double"}

\* a Printer configured with one of the quote options, handed a string
InitStr ==
  /\ explicitTabWidth = 0
  /\ \E q \in Quotes :
       options = normalizeOptions([tabWidth |-> 0, printWidth |-> DefaultPrintWidth,
                                   quote |-> q, objectCurlySpacing |-> FALSE])
  /\ config = options
  /\ \E str \in SeqsUpTo(QuoteChars, MaxStrLen) : input = Str(str)
  /\ ast = input
  /\ result = [status |-> "none"]
  /\ frames = <<>>
  /\ op = "new"

\* nodeStr(n.value, options)
NodeStr ==
  /\ op = "new"
  /\ op' = "nodeStr"
  /\ result' = [status |-> "ok", str |-> nodeStr(input.value.chars, options)]
  /\ UNCHANGED <<options, explicitTabWidth, config, input, ast, frames>>

\* the string literal printed as a program of its own
PrintStr ==
  /\ op = "new"
  /\ PrinterPrint(Program(<<ExprStmt(input)>>))

NextStr == NodeStr \/ PrintStr

SpecStr == InitStr /\ [][NextStr]_vars

RECURSIVE Count(_, _)
\* the occurrences of the character c in str
Count(c, str) ==
  IF str = <<>> THEN 0
  ELSE (IF Head(str) = c THEN 1 ELSE 0) + Count(c, Tail(str))

\* C5: under quote=auto a string with a single quotes and b double quotes
\* is delimited by single quotes iff a < b and by double quotes otherwise,
\* a tie included
C5_AutoQuote ==
  (op = "nodeStr" /\ options.quote = "auto")
  => LET a == Count("'", input.value.chars)
         b == Count("\"", input.value.chars)
         delimiter == IF a < b THEN "'" ELSE "\""
     IN  /\ Head(result.str) = delimiter
         /\ Last(result.str) = delimiter

C5_Witness ==
  /\ op = "nodeStr"
  /\ options.quote = "auto"
  /\ Count("'", input.value.chars) = 1
  /\ Count("\"", input.value.chars) = 1
  /\ Head(result.str) = "\""

(***************************************************************************)
(* The template translators on comments and elements                       *)
(***************************************************************************)
CommentChars == {"a", " ", "{", "}"}

CommentTrees == {MustacheComment(chars) : chars \in SeqsUpTo(CommentChars, MaxStrLen)}

ElementTags == {"br", "img", "div"}

ElementTrees ==
  LET attributes == {<<>>, <<AttrNode("id", TextNode(<<"x">>, 9, 10))>>}
      children == {<<>>, <<TextNode(<<"a">>, 5, 6)>>}
  IN  {ElementNode(tag, as, cs) :
         tag \in ElementTags, as \in attributes, cs \in children}
      \cup {NamedElementNode(tag, as, cs) :
              tag \in ElementTags, as \in attributes, cs \in children}

\* the translator applied once
PrintTemplate(a) == op = "new" /\ PrintPath(a)

\* the earlier version of the translator applied once
PrintTemplateEarly(a) == op = "new" /\ PrintPathEarly(a)

NextTemplate ==
  \/ \E a \in CommentTrees \cup ElementTrees : PrintTemplate(a)
  \/ \E a \in CommentTrees \cup ElementTrees : PrintTemplateEarly(a)

SpecTemplate == Init /\ [][NextTemplate]_vars

TemplateOps == {"printPath", "printPathEarly"}

\* C6 (as claimed): an element of a void tag renders as `<tag ...>`, with
\* no ` />` and no closing tag, whether or not it has children
C6_VoidSelfClosing ==
  (op = "printPath" /\ input.type = "ElementNode" /\ input.tag \in voidTags)
  => /\ result.status = "ok"
     /\ LET out == Tokens(result.doc, options.printWidth)
        IN  /\ \E i \in DOMAIN out : out[i] = ">"
            /\ \A i \in DOMAIN out : out[i] \notin {" />", "</"}

\* the comment text has two opening or two closing braces in a row
HasBraces(text) ==
  \E i \in 1..(Len(text) - 1) :
    \/ text[i] = "{" /\ text[i + 1] = "{"
    \/ text[i] = "}" /\ text[i + 1] = "}"

\* C7: a comment is delimited by `{{!--` and `--}}` iff its trimmed text
\* contains `{{` or `}}` and by `{{!` and `}}` otherwise, and the two
\* versions of the template printer build the same document for it
C7_CommentDelimiters ==
  (op \in TemplateOps /\ input.type = "MustacheCommentStatement")
  => /\ result.status = "ok"
     /\ LET parts == result.doc.contents.parts
            dashed == HasBraces(trim(input.value))
        IN  /\ Head(parts) = fromString(IF dashed THEN "{{!--" ELSE "{{!")
            /\ Last(parts) = fromString(IF dashed THEN "--}}" ELSE "}}")
     /\ result.doc = printPath(from(input), options)
     /\ result.doc = printPathEarly(from(input), options)

C7_Witness ==
  /\ op = "printPathEarly"
  /\ input.type = "MustacheCommentStatement"
  /\ HasBraces(trim(input.value))
  /\ result.status = "ok"
  /\ result.code = "{{!-- a}} --}}"

(***************************************************************************)
(* The Printer on object and array literals                                *)
(***************************************************************************)
ObjPattern(props) == [type |-> "ObjectPattern", properties |-> props]
TypedObjPattern(props) ==
  [type |-> "ObjectPattern", properties |-> props,
   typeAnnotation |-> [type |-> "TypeAnnotation",
                       typeAnnotation |-> [type |-> "AnyTypeAnnotation"]]]
Shorthand(name) ==
  [type |-> "Property", key |-> Id(name), value |-> Id(name), shorthand |-> TRUE]
ObjType(props) ==
  [type |-> "ObjectTypeAnnotation", properties |-> props,
   indexers |-> <<>>, callProperties |-> <<>>]
ExactObjType(props) ==
  [type |-> "ObjectTypeAnnotation", properties |-> props,
   indexers |-> <<>>, callProperties |-> <<>>, exact |-> TRUE]
TypeProp(name, tag) ==
  [type |-> "ObjectTypeProperty", key |-> Id(name), value |-> [type |-> tag]]

\* the values of the entries of a literal
EntryValues ==
  {Num("1"), Bin("+", Id("x"), Id("y")), Arr(<<Num("1"), Num("2")>>),
   Obj(<<Prop(Id("e"), Id("longName"))>>)}

Literals ==
  UNION {{Arr(vs), Obj([i \in DOMAIN vs |-> Prop(Id("k"), vs[i])])} :
           vs \in SeqsUpTo(EntryValues, MaxEntries)}

PatternNames == {"a", "bb"}

Patterns ==
  UNION {{ObjPattern([i \in DOMAIN ns |-> Shorthand(ns[i])]),
          TypedObjPattern([i \in DOMAIN ns |-> Shorthand(ns[i])])} :
           ns \in SeqsUpTo(PatternNames, MaxEntries)}

TypeProps ==
  {TypeProp("a", "NumberTypeAnnotation"), TypeProp("bb", "StringTypeAnnotation")}

ObjTypes ==
  UNION {{ObjType(ps), ExactObjType(ps)} : ps \in SeqsUpTo(TypeProps, MaxEntries)}

LayoutWidths == {DefaultPrintWidth, 16, 8}

InitLayout ==
  /\ explicitTabWidth \in TabWidths
  /\ \E w \in LayoutWidths :
       options = normalizeOptions([tabWidth |-> explicitTabWidth,
                                   printWidth |-> w, quote |-> "double",
                                   objectCurlySpacing |-> FALSE])
  /\ config = options
  /\ input = Null
  /\ ast = Null
  /\ result = [status |-> "none"]
  /\ frames = <<>>
  /\ op = "new"

\* the literals after `var o = `
Declarations == {Var(Id("o"), a) : a \in Literals}

\* the first call on a Printer: print(a)
PrintOnce(a) == op = "new" /\ PrinterPrint(a)

\* the first call on a Printer: printGenerically(a)
PrintGenericallyOnce(a) == op = "new" /\ PrintGenerically(a)

NextLayout ==
  \/ \E a \in Literals \cup Patterns \cup ObjTypes \cup Declarations :
       PrintOnce(a)
  \/ \E a \in Declarations : PrintGenericallyOnce(a)

SpecLayout == InitLayout /\ [][NextLayout]_vars

Openers == {"{", "{|", "["}
Closers == {"}", "|}", "]"}

RECURSIVE LineModes(_, _, _, _)
\* the pairs <<b, broken>> for the lines that belong directly to the
\* literal whose opening bracket is token b of the rendered text: the line
\* after the opening bracket, the line after each separator of the
\* literal, and the line before its closing bracket
LineModes(out, i, stack, acc) ==
  IF i > Len(out) THEN acc
  ELSE IF out[i] \in Openers
  THEN LineModes(out, i + 1, <<i>> \o stack,
                 acc \cup {<<i, out[i + 1] # " ">>})
  ELSE IF out[i] \in Closers
  THEN LineModes(out, i + 1, Tail(stack),
                 acc \cup {<<Head(stack), out[i - 1] # " ">>})
  ELSE IF out[i] \in {",", ";"} /\ stack # <<>> /\ i < Len(out)
  THEN LineModes(out, i + 1, stack,
                 acc \cup {<<Head(stack), out[i + 1] # " ">>})
  ELSE LineModes(out, i + 1, stack, acc)

Modes == LineModes(Tokens(result.doc, options.printWidth), 1, <<>>, {})

\* C9: the lines that belong directly to an object or array literal are
\* all rendered flat or all rendered as newlines, whatever the print
\* width, the starting column and the layout of the entries
C9_AllOrNothing ==
  (op \in JsOps /\ result.status = "ok")
  => \A m \in Modes : <<m[1], ~m[2]>> \notin Modes

\* a literal with three entries broken around an entry that stays flat
C9_Witness ==
  /\ op = "print"
  /\ result.status = "ok"
  /\ input.type = "VariableDeclaration"
  /\ Len(input.declarations[1].init[
          IF input.declarations[1].init.type = "ObjectExpression"
          THEN "properties" ELSE "elements"]) = 3
  /\ \E m, k \in Modes : m[1] < k[1] /\ m[2] /\ ~k[2]

ObjectTypes == {"ObjectExpression", "ObjectPattern", "ObjectTypeAnnotation"}

RECURSIVE JoinText(_, _)
JoinText(sep, texts) ==
  IF texts = <<>> THEN ""
  ELSE IF Len(texts) = 1 THEN texts[1]
  ELSE texts[1] \o sep \o JoinText(sep, Tail(texts))

\* the documents of the entries of the object-shaped node printed last
Entries ==
  map(from(input), Ctx(options, explicitTabWidth, "printWithComments"),
      "properties")

\* the one-line form between the given braces
OneLine(left, right) ==
  LET separator == IF input.type = "ObjectTypeAnnotation" THEN "; " ELSE ", "
      flat == [i \in DOMAIN Entries |->
                 Cat(Render(Entries[i], TRUE, 0, [out |-> <<>>, col |-> 0], 0).out)]
  IN  left \o " " \o JoinText(separator, flat) \o " " \o right

\* the form with every entry on a line of its own, indented by tabWidth
OnePerLine(left, right) ==
  LET separator == IF input.type = "ObjectTypeAnnotation" THEN ";" ELSE ","
      tabWidth == options.tabWidth
      own == [i \in DOMAIN Entries |->
                NL(tabWidth)
                \o Cat(Render(group(Entries[i]), FALSE, tabWidth,
                              [out |-> <<>>, col |-> tabWidth],
                              options.printWidth).out)]
  IN  left \o JoinText(separator, own) \o NL(0) \o right

\* C10 (as claimed): an object-shaped node without entries renders as
\* `{}`; with entries it renders as `{ e1, ..., en }` on one line when
\* that fits the print width, and otherwise with every entry on its own
\* line, indented by tabWidth, between `{` and `}`
C10_ObjectLayout ==
  (op = "print" /\ input.type \in ObjectTypes)
  => /\ result.status = "ok"
     /\ result.code =
          IF Entries = <<>> THEN "{}"
          ELSE IF Len(OneLine("{", "}")) <= options.printWidth
          THEN OneLine("{", "}")
          ELSE OnePerLine("{", "}")

\* C10 (amended): the same between `{|` and `|}` when the node is exact,
\* with the node's type annotation after the closing brace and counted in
\* the one-line form
C10_ObjectLayoutDelimited ==
  (op = "print" /\ input.type \in ObjectTypes)
  => /\ result.status = "ok"
     /\ LET left == IF Flag(input, "exact") THEN "{|" ELSE "{"
            annotation ==
              call(from(input),
                   Ctx(options, explicitTabWidth, "printWithComments"),
                   "typeAnnotation")
            right == (IF Flag(input, "exact") THEN "|}" ELSE "}")
                     \o printDoc(options.printWidth, annotation)
        IN  result.code =
              IF Entries = <<>> THEN "{}"
              ELSE IF Len(OneLine(left, right)) <= options.printWidth
              THEN OneLine(left, right)
              ELSE OnePerLine(left, right)

C10_Witness ==
  /\ op = "print"
  /\ input.type = "ObjectExpression"
  /\ Len(input.properties) = 2
  /\ result.status = "ok"
  /\ result.code = "{\n  k: 1,\n  k: [ 1, 2 ]\n}"

(***************************************************************************)
(* The Printer on call and new expressions                                 *)
(***************************************************************************)
New(callee, args) == [type |-> "NewExpression", callee |-> callee, arguments |-> args]

ArgumentValues ==
  {Id("a"), Num("1"), Obj(<<>>), Obj(<<Prop(Id("k"), Num("1"))>>),
   Bin("+", Id("x"), Id("y"))}

Calls ==
  UNION {{Call(Id("f"), args), New(Id("F"), args)} :
           args \in SeqsUpTo(ArgumentValues, MaxEntries)}

NextCalls == \E a \in Calls : PrintOnce(a)

SpecCalls == InitLayout /\ [][NextCalls]_vars

CallTypes == {"CallExpression", "NewExpression"}

\* the documents of the arguments of the call printed last
Arguments ==
  map(from(input), Ctx(options, explicitTabWidth, "printWithComments"),
      "arguments")

\* the text before the opening parenthesis
Callee == IF input.type = "NewExpression" THEN "new F" ELSE "f"

\* the argument list on one line
ArgumentsFlat ==
  "(" \o JoinText(", ", [i \in DOMAIN Arguments |->
                           Cat(Render(Arguments[i], TRUE, 0,
                                      [out |-> <<>>, col |-> 0], 0).out)])
      \o ")"

\* the argument list broken: a line for every argument, indented by tabWidth
ArgumentsBroken ==
  LET tabWidth == options.tabWidth
  IN  "(" \o JoinText(",", [i \in DOMAIN Arguments |->
                              NL(tabWidth)
                              \o Cat(Render(Arguments[i], FALSE, tabWidth,
                                            [out |-> <<>>, col |-> tabWidth],
                                            options.printWidth).out)])
          \o NL(0) \o ")"

\* a lone argument put directly between the parentheses
ArgumentGlued ==
  "(" \o Cat(Render(Arguments[1], FALSE, 0,
                    [out |-> <<>>, col |-> Len(Callee) + 1],
                    options.printWidth).out)
      \o ")"

\* C11: a call or new expression without arguments prints `()`; one
\* argument whose document starts with `{` stands directly between the
\* parentheses, not on a line of its own; any other list is joined by `,`
\* and a line, and when it breaks every argument is on a line of its own
\* indented by tabWidth with `)` on the line after the last
C11_ArgumentsList ==
  (op = "print" /\ input.type \in CallTypes)
  => /\ result.status = "ok"
     /\ result.code =
          Callee \o
          (IF Arguments = <<>> THEN "()"
           ELSE IF Len(Arguments) = 1 /\ getFirstString(Arguments[1]) = "{"
           THEN ArgumentGlued
           ELSE IF Len(Callee) + Len(ArgumentsFlat) <= options.printWidth
           THEN ArgumentsFlat
           ELSE ArgumentsBroken)

C11_Witness ==
  /\ op = "print"
  /\ input.type = "CallExpression"
  /\ Len(input.arguments) = 1
  /\ result.status = "ok"
  /\ result.code = "f({\n  k: 1\n})"

(***************************************************************************)
(* The Printer on import declarations                                      *)
(***************************************************************************)
ImportSpecifiers ==
  {DefaultSpec, NamespaceSpec, NamedSpec("a", "a"), NamedSpec("a", "b")}

Imports == {ImportDecl(specs) : specs \in SeqsUpTo(ImportSpecifiers, MaxEntries)}

NextImports == \E a \in Imports : PrintOnce(a)

SpecImports == Init /\ [][NextImports]_vars

IsNamed(s) == s.type = "ImportSpecifier"

\* the rendered text, token by token
Out == Tokens(result.doc, options.printWidth)

OpenBrace == IF options.objectCurlySpacing THEN "{ " ELSE "{"
CloseBrace == IF options.objectCurlySpacing THEN " }" ELSE "}"

\* the number of tokens of out among the given ones
Occurrences(out, tokens) == Cardinality({i \in DOMAIN out : out[i] \in tokens})

\* the tokens of the i-th specifier of the declaration printed last
SpecifierTokens(i) ==
  Tokens(callback(Elem(from(input), "specifiers", i),
                  Ctx(options, explicitTabWidth, "printWithComments")),
         options.printWidth)

RECURSIVE SpecifierList(_)
\* the tokens of the specifiers from the i-th on, separated by `, `, with
\* the opening brace before the first named one
SpecifierList(i) ==
  IF i > Len(input.specifiers) THEN <<>>
  ELSE (IF i > 1 THEN <<", ">> ELSE <<>>)
       \o (IF /\ IsNamed(input.specifiers[i])
              /\ \A j \in 1..(i - 1) : ~IsNamed(input.specifiers[j])
           THEN <<OpenBrace>> ELSE <<>>)
       \o SpecifierTokens(i)
       \o SpecifierList(i + 1)

\* C12: an import declaration that prints has one opening brace, right
\* before its first named specifier, and one closing brace, after its last
\* specifier, iff it has a named specifier, and none otherwise; default
\* and namespace specifiers stand before the opening brace; the braces
\* have an interior space iff objectCurlySpacing is set
C12_ImportBraces ==
  (op = "print" /\ input.type = "ImportDeclaration" /\ result.status = "ok")
  => LET named == \E i \in DOMAIN input.specifiers : IsNamed(input.specifiers[i])
         braces == IF named THEN 1 ELSE 0
     IN  /\ Occurrences(Out, {"{", "{ "}) = braces
         /\ Occurrences(Out, {"}", " }"}) = braces
         /\ Occurrences(Out, {OpenBrace}) = braces
         /\ Occurrences(Out, {CloseBrace}) = braces
         /\ Out = <<"import ">>
                    \o SpecifierList(1)
                    \o (IF named THEN <<CloseBrace>> ELSE <<>>)
                    \o (IF input.specifiers = <<>> THEN <<>> ELSE <<" from ">>)
                    \o <<"\"m\"", ";">>

C12_Witness ==
  /\ op = "print"
  /\ input.type = "ImportDeclaration"
  /\ Len(input.specifiers) = 3
  /\ options.objectCurlySpacing
  /\ result.status = "ok"
  /\ result.code = "import Foo, { a, a as b } from \"m\";"

(***************************************************************************)
(* Printing, parsing the text and printing again (template dialect)        *)
(***************************************************************************)
Blank == TextNode(<<" ">>, 0, 1)
Letter == TextNode(<<"a">>, 0, 1)
Words == TextNode(<<"a", " ", " ", "b">>, 0, 4)
Childless == ElementNode("p", <<>>, <<>>)

\* the children of a template: text, and elements without attributes
TemplateChildren ==
  {Blank, Letter, Words, Childless,
   ElementNode("p", <<>>, <<Blank>>),
   ElementNode("p", <<>>, <<Letter>>),
   ElementNode("p", <<>>, <<Childless>>),
   ElementNode("br", <<>>, <<>>)}

Templates == {Program(body) : body \in SeqsUpTo(TemplateChildren, MaxEntries)}

MaxIndent == 8

\* the character sequences a rendering of Templates is made of: a newline
\* with its indentation, and the printed texts
TokenChars ==
  {<<"\n">> \o [i \in 1..k |-> " "] : k \in 0..MaxIndent}
  \cup {<<"a">>, <<"a", " ", "b">>}

Markup == {"<", ">", " />", "</"}

\* the characters of a text token
Chars(s) == CHOOSE c \in TokenChars : Cat(c) = s

RECURSIVE preprocess(_)
\* glimmer.preprocess on the tokens of a text of elements without
\* attributes and character data: the nodes up to the first unmatched
\* closing tag, and the tokens from there on; character data up to the next
\* tag is one TextNode; `<tag />` has no children, `<tag>` has those up to
\* its `</tag>`
preprocess(toks) ==
  IF toks = <<>> \/ Head(toks) = "</"
  THEN [nodes |-> <<>>, rest |-> toks]
  ELSE IF Head(toks) = "<"
  THEN IF toks[3] = " />"
       THEN LET after == preprocess(SubSeq(toks, 4, Len(toks)))
            IN  [nodes |-> <<ElementNode(toks[2], <<>>, <<>>)>> \o after.nodes,
                 rest |-> after.rest]
       ELSE LET inner == preprocess(SubSeq(toks, 4, Len(toks)))
                after == preprocess(SubSeq(inner.rest, 4, Len(inner.rest)))
            IN  [nodes |-> <<ElementNode(toks[2], <<>>, inner.nodes)>>
                             \o after.nodes,
                 rest |-> after.rest]
  ELSE LET after == preprocess(Tail(toks))
           chars == Chars(Head(toks))
       IN  IF after.nodes # <<>> /\ after.nodes[1].type = "TextNode"
           THEN [nodes |-> <<TextNode(chars \o after.nodes[1].chars, 0, 1)>>
                             \o Tail(after.nodes),
                 rest |-> after.rest]
           ELSE [nodes |-> <<TextNode(chars, 0, 1)>> \o after.nodes,
                 rest |-> after.rest]

\* parse(text), on the tokens of the text
parse(text) == Program(preprocess(text).nodes)

NextRoundTrip == \E a \in Templates : PrintTemplate(a)

SpecRoundTrip == Init /\ [][NextRoundTrip]_vars

\* the text of printing again what the parser makes of the printed text
Reprinted ==
  printDoc(options.printWidth,
           printPath(from(parse(Tokens(result.doc, options.printWidth))),
                     options))

\* C13 (as claimed): parsing the text a print produced and printing the
\* resulting tree with the same configuration yields the same text
C13_Idempotent ==
  (op = "printPath" /\ result.status = "ok") => Reprinted = result.code

\* an element whose only child is blank text prints as `<p></p>`, which
\* parses to an element without children and prints as `<p />` and a newline
C13_BlankChild ==
  /\ op = "printPath"
  /\ input = Program(<<ElementNode("p", <<>>, <<Blank>>)>>)
  /\ result.status = "ok"
  /\ result.code = "<p></p>"
  /\ Reprinted = "<p />\n"

(***************************************************************************)
(* The Printer on loops and variable declarations                          *)
(***************************************************************************)
\* var id;
Decl(id) ==
  [type |-> "VariableDeclaration", kind |-> "var",
   declarations |-> <<[type |-> "VariableDeclarator", id |-> id]>>]
For(body) == [type |-> "ForStatement", body |-> body]
ForInit(init, body) == [type |-> "ForStatement", init |-> init, body |-> body]
ForIn(left, right, body) ==
  [type |-> "ForInStatement", left |-> left, right |-> right, body |-> body]
ForOf(left, right, body) ==
  [type |-> "ForOfStatement", left |-> left, right |-> right, body |-> body]
ForAwait(left, right, body) ==
  [type |-> "ForAwaitStatement", left |-> left, right |-> right, body |-> body]
While(test, body) == [type |-> "WhileStatement", test |-> test, body |-> body]

LoopBodies ==
  {Var(Id("x"), Num("1")), Decl(Id("x")), Block(<<>>),
   Block(<<Var(Id("x"), Num("1"))>>), ExprStmt(Call(Id("f"), <<>>))}

Loops ==
  UNION {{For(b), ForInit(Var(Id("i"), Num("0")), b), ForInit(Id("i"), b),
          ForIn(Decl(Id("k")), Id("o"), b), ForIn(Id("k"), Id("o"), b),
          ForOf(Decl(Id("k")), Id("o"), b), ForOf(Id("k"), Id("o"), b),
          ForAwait(Decl(Id("k")), Id("o"), b),
          While(Id("c"), b), If(Id("c"), b), b, Program(<<b>>)} :
         b \in LoopBodies}

NextLoops == \E a \in Loops : PrintOnce(a)

SpecLoops == InitLayout /\ [][NextLoops]_vars

LoopTypes ==
  {"ForStatement", "ForInStatement", "ForOfStatement", "ForAwaitStatement",
   "WhileStatement"}

\* the node in field f of the tree printed last is a variable declaration
DeclarationIn(f) ==
  /\ input.type \in LoopTypes \cup {"IfStatement"}
  /\ Has(input, f)
  /\ input[f].type = "VariableDeclaration"

\* the text of the node at path, as printed within the tree, ends with `;`
Terminated(path) ==
  Last(Tokens(callback(path, Ctx(options, explicitTabWidth, "printWithComments")),
              options.printWidth)) = ";"

\* C14 (as claimed): a variable declaration ends with `;` when it is the
\* tree printed, a statement of a program, or the body of a loop or of an
\* if statement, and has no `;` when it is the init of a for or the left
\* of a for-in, for-of or for-await
C14_DeclarationSemicolon ==
  (op = "print" /\ result.status = "ok")
  => /\ input.type = "VariableDeclaration" => Terminated(from(input))
     /\ (input.type = "Program" /\ input.body[1].type = "VariableDeclaration")
          => Terminated(Elem(from(input), "body", 1))
     /\ \A f \in {"body", "consequent"} :
          DeclarationIn(f) => Terminated(Child(from(input), f))
     /\ \A f \in {"init", "left"} :
          DeclarationIn(f) => ~Terminated(Child(from(input), f))

\* `for (;;) var x = 1`: the declaration that is the body has lost its `;`
C14_BodyUnterminated ==
  /\ op = "print"
  /\ input = For(Var(Id("x"), Num("1")))
  /\ result.status = "ok"
  /\ ~Terminated(Child(from(input), "body"))

(***************************************************************************)
(* The Printer on JSX elements with children                               *)
(***************************************************************************)
JSXWith(children) ==
  [type |-> "JSXElement", openingElement |-> JSXOpening(FALSE),
   children |-> children, closingElement |-> JSXClosing]

JSXTextChars == {"a", " ", "\n"}

JSXTexts == {Str(chars) : chars \in SeqsUpTo(JSXTextChars, MaxStrLen)}

JSXExpression ==
  [type |-> "JSXExpressionContainer", expression |-> Id("x")]

JSXElements ==
  {JSXWith(<<t>>) : t \in JSXTexts}
  \cup {JSXWith(<<t, JSXExpression>>) : t \in JSXTexts}
  \cup {JSXWith(<<JSXSelfClosed, t>>) : t \in JSXTexts}
  \cup {JSXWith(<<Num("1")>>), JSXWith(<<JSXExpression>>)}

NextJSX == \E a \in JSXElements : PrintOnce(a)

SpecJSX == InitLayout /\ [][NextJSX]_vars

RECURSIVE TextWithBreaks(_)
\* the documents of a text: its characters, every whitespace run as one
\* space, or as a Hard line when a newline is in it
TextWithBreaks(chars) ==
  IF chars = <<>> THEN <<>>
  ELSE IF IsSpace(Head(chars))
  THEN LET rest == trimStart(chars)
           run == SubSeq(chars, 1, Len(chars) - Len(rest))
       IN  <<IF \E k \in DOMAIN run : run[k] = "\n"
             THEN hardline ELSE fromString(" ")>>
             \o TextWithBreaks(rest)
  ELSE <<fromString(Head(chars))>> \o TextWithBreaks(Tail(chars))

IsStringChild(child) ==
  child.type \in LiteralTypes /\ child.value.kind = "string"

\* C15 (as claimed): of the children of a JSX element, a string with a
\* character that is not whitespace is emitted trimmed, every whitespace
\* run inside it as one space, or as a Hard line when it has a newline; a
\* string of whitespace with a newline is emitted as one Hard line; every
\* other child is emitted as the generic rule prints it
C15_JSXText ==
  (op = "print" /\ input.type = "JSXElement" /\ Has(input, "children")
     /\ result.status = "ok")
  => \A i \in DOMAIN input.children :
       LET child == input.children[i]
           ctx == Ctx(options, explicitTabWidth, "printWithComments")
           emitted == printJSXChild(from(input), ctx, i)
           text == printDoc(options.printWidth, emitted)
       IN  IF IsStringChild(child)
              /\ \E k \in DOMAIN child.value.chars : ~IsSpace(child.value.chars[k])
           THEN text = printDoc(options.printWidth,
                                concat(TextWithBreaks(trim(child.value.chars))))
           ELSE IF IsStringChild(child)
                   /\ \E k \in DOMAIN child.value.chars : child.value.chars[k] = "\n"
           THEN emitted = hardline
           ELSE emitted = callback(Elem(from(input), "children", i), ctx)

\* `<p>a
\* a</p>`: the text child is emitted with the newline replaced by the
\* string form of the Hard line object
C15_NewlineAsObjectText ==
  /\ op = "print"
  /\ input = JSXWith(<<Str(<<"a", "\n", "a">>)>>)
  /\ result.status = "ok"
  /\ result.code = "<p>a[object Object]a</p>"

(***************************************************************************)
(* The Printer on declarations with decorators                             *)
(***************************************************************************)
Decorator(name) == [type |-> "Decorator", expression |-> Id(name)]
ClassBody(members) == [type |-> "ClassBody", body |-> members]
Class == [type |-> "ClassDeclaration", id |-> Id("C"), body |-> ClassBody(<<>>)]
DecoratedClass(decorators) ==
  [type |-> "ClassDeclaration", id |-> Id("C"), body |-> ClassBody(<<>>),
   decorators |-> decorators]
Export(declaration) ==
  [type |-> "ExportNamedDeclaration", declaration |-> declaration]
ExportDefault(declaration) ==
  [type |-> "ExportDefaultDeclaration", declaration |-> declaration]
DecoratedExport(decorators, declaration) ==
  [type |-> "ExportNamedDeclaration", declaration |-> declaration,
   decorators |-> decorators]

DecoratorNames == {"a", "b"}

Classes ==
  {Class}
  \cup {DecoratedClass(ds) :
          ds \in SeqsUpTo({Decorator(d) : d \in DecoratorNames}, MaxEntries)}

DecoratedTrees ==
  UNION {{c, Export(c), ExportDefault(c), DecoratedExport(<<>>, c),
          DecoratedExport(<<Decorator("e")>>, c),
          Program(<<c>>), Program(<<Export(c)>>),
          Program(<<DecoratedExport(<<Decorator("e")>>, c)>>)} :
         c \in Classes}

NextDecorators == \E a \in DecoratedTrees : PrintOnce(a)

SpecDecorators == InitLayout /\ [][NextDecorators]_vars

\* the statement printed last, and the declaration in it
Statement == IF input.type = "Program" THEN input.body[1] ELSE input
Declaration ==
  IF isExportDeclaration(Statement) THEN Statement.declaration ELSE Statement

DecoratorsOf(n) == IF Has(n, "decorators") THEN n.decorators ELSE <<>>

\* C16 (as claimed): every decorator of a declaration is in the printed
\* text exactly once, whether the declaration stands alone or in an export
\* declaration, with or without decorators of its own
C16_DecoratorsOnce ==
  (op = "print" /\ result.status = "ok")
  => \A d \in DecoratorNames :
       Occurrences(Out, {d})
         = Cardinality({i \in DOMAIN DecoratorsOf(Declaration) :
                          DecoratorsOf(Declaration)[i].expression.name = d})

\* `@e export @a class C {}` prints as `@e`, newline, `export class C {}`
C16_DeclarationDecoratorOmitted ==
  /\ op = "print"
  /\ input = DecoratedExport(<<Decorator("e")>>, DecoratedClass(<<Decorator("a")>>))
  /\ result.status = "ok"
  /\ result.code = "@e\nexport class C {}"

(***************************************************************************)
(* The Printer on declare forms                                            *)
(***************************************************************************)
DeclareTypeBodies == {ObjType(<<>>), ObjType(<<TypeProp("a", "NumberTypeAnnotation")>>)}

DeclareNodes ==
  {[type |-> "DeclareFunction", id |-> Id("f")],
   [type |-> "DeclareVariable", id |-> Id("v")],
   [type |-> "DeclareModule", id |-> Id("m"), body |-> Block(<<>>)],
   [type |-> "DeclareModuleExports",
    typeAnnotation |-> [type |-> "TypeAnnotation",
                        typeAnnotation |-> [type |-> "AnyTypeAnnotation"]]],
   [type |-> "DeclareTypeAlias", id |-> Id("T"),
    right |-> [type |-> "NumberTypeAnnotation"]]}
  \cup {[type |-> "DeclareClass", id |-> Id("C"), body |-> b] :
          b \in DeclareTypeBodies}
  \cup {[type |-> "DeclareInterface", id |-> Id("I"), extends |-> <<>>,
         body |-> b] : b \in DeclareTypeBodies}

DeclareExport(declaration) ==
  [type |-> "DeclareExportDeclaration", declaration |-> declaration]
DeclareExportDefault(declaration) ==
  [type |-> "DeclareExportDeclaration", declaration |-> declaration,
   default |-> TRUE]

DeclareTrees ==
  UNION {{d, DeclareExport(d), DeclareExportDefault(d), Export(d),
          Program(<<d>>), Program(<<DeclareExport(d)>>)} :
         d \in DeclareNodes}

NextDeclare == \E a \in DeclareTrees : PrintOnce(a)

SpecDeclare == InitLayout /\ [][NextDeclare]_vars

DeclareTypes ==
  {"DeclareClass", "DeclareFunction", "DeclareModule", "DeclareModuleExports",
   "DeclareVariable", "DeclareInterface", "DeclareTypeAlias"}

\* C17 (as claimed): the printed text of a declare form, alone or in a
\* DeclareExportDeclaration, has the token `declare` exactly once
C17_DeclareOnce ==
  (op = "print" /\ result.status = "ok" /\ Declaration.type \in DeclareTypes)
  => Occurrences(Out, {"declare "}) = 1

\* `declare export declare interface I  {}`
C17_DeclareTwice ==
  /\ op = "print"
  /\ input = DeclareExport([type |-> "DeclareInterface", id |-> Id("I"),
                            extends |-> <<>>, body |-> ObjType(<<>>)])
  /\ result.status = "ok"
  /\ Occurrences(Out, {"declare "}) = 2

(***************************************************************************)
(* The Printer on import and export specifiers                             *)
(***************************************************************************)
SpecifierNames == {"a", "b", "c"}

SpecifierKinds == {"ImportSpecifier", "ExportSpecifier"}

\* the shapes of a specifier: the name alone, name and alias, and both in
\* the legacy fields
Specifiers ==
  UNION {
    {[type |-> "ImportSpecifier", imported |-> Id(n)],
     [type |-> "ExportSpecifier", local |-> Id(n)]}
    \cup {[type |-> k, id |-> Id(n)] : k \in SpecifierKinds}
    \cup {[type |-> "ImportSpecifier", imported |-> Id(n), local |-> Id(m)] :
            m \in SpecifierNames}
    \cup {[type |-> "ExportSpecifier", local |-> Id(n), exported |-> Id(m)] :
            m \in SpecifierNames}
    \cup {[type |-> k, id |-> Id(n), name |-> Id(m)] :
            k \in SpecifierKinds, m \in SpecifierNames} :
    n \in SpecifierNames}

NextSpecifiers == \E a \in Specifiers : PrintOnce(a)

SpecSpecifiers == Init /\ [][NextSpecifiers]_vars

\* the name of the specifier printed last, and its alias ("" without one)
SpecifierName ==
  IF Has(input, "id") THEN input.id.name
  ELSE IF input.type = "ImportSpecifier" THEN input.imported.name
  ELSE input.local.name

SpecifierAlias ==
  IF Has(input, "id") THEN (IF Has(input, "name") THEN input.name.name ELSE "")
  ELSE IF input.type = "ImportSpecifier"
  THEN (IF Has(input, "local") THEN input.local.name ELSE "")
  ELSE (IF Has(input, "exported") THEN input.exported.name ELSE "")

\* C18 (as claimed): a specifier prints as its name when it has no alias or
\* the alias is the name, and as `name as alias` otherwise, in the
\* imported/local, local/exported and id/name shapes alike
C18_SpecifierAlias ==
  (op = "print" /\ input.type \in SpecifierKinds)
  => /\ result.status = "ok"
     /\ result.code = IF SpecifierAlias \in {"", SpecifierName}
                      THEN SpecifierName
                      ELSE SpecifierName \o " as " \o SpecifierAlias

\* the legacy shape with id a and name a prints as `a as a`
C18_LegacyNotCollapsed ==
  /\ op = "print"
  /\ input = [type |-> "ImportSpecifier", id |-> Id("a"), name |-> Id("a")]
  /\ result.status = "ok"
  /\ result.code = "a as a"

(***************************************************************************)
(* The Printer on statement lists                                          *)
(***************************************************************************)
Empty == [type |-> "EmptyStatement"]

Statements == {ExprStmt(Id("a")), ExprStmt(Id("b")), Empty, Null}

Members == {MethodDefinitionNode("method", Fn(<<>>, <<>>)), Empty, Null}

SwitchCaseOf(stmts) ==
  [type |-> "SwitchCase", test |-> Num("1"), consequent |-> stmts]

StatementLists ==
  UNION {{Program(s), Block(s), SwitchCaseOf(s)} :
         s \in SeqsUpTo(Statements, MaxEntries)}
  \cup {ClassBody(s) : s \in SeqsUpTo(Members, MaxEntries)}

NextStatements == \E a \in StatementLists : PrintOnce(a)

SpecStatements == InitLayout /\ [][NextStatements]_vars

\* the field of the tree printed last that holds its statements
ListField == IF input.type = "SwitchCase" THEN "consequent" ELSE "body"

IsPrinted(stmt) == stmt # Null /\ stmt.type # "EmptyStatement"

\* the index of the k-th statement of the list that is printed
KeptIndex(list, k) ==
  CHOOSE i \in DOMAIN list :
    /\ IsPrinted(list[i])
    /\ Cardinality({j \in 1..i : IsPrinted(list[j])}) = k

RECURSIVE IsPart(_, _)
\* the document part occurs in the document d
IsPart(part, d) ==
  \/ d = part
  \/ d.t = "concat" /\ \E i \in DOMAIN d.parts : IsPart(part, d.parts[i])
  \/ d.t \in {"indent", "group"} /\ IsPart(part, d.contents)

\* C19: the document of a statement list (the body of a program, a block
\* or a class, the consequent of a switch case) is made of the documents
\* of its statements that are neither missing nor empty statements, in
\* their order, with one Hard line between two of them, none before the
\* first and none after the last, so that a list of empty statements
\* gives no Hard line; and that document is part of the output
C19_StatementSequence ==
  (op = "print" /\ result.status = "ok"
     /\ input.type \in {"Program", "BlockStatement", "ClassBody", "SwitchCase"})
  => LET ctx == Ctx(options, explicitTabWidth, "printWithComments")
         list == input[ListField]
         sequence == printStatementSequence(from(input), ctx, ListField)
         count == Cardinality({i \in DOMAIN list : IsPrinted(list[i])})
     IN  /\ sequence.t = "concat"
         /\ Len(sequence.parts) = IF count = 0 THEN 0 ELSE 2 * count - 1
         /\ \A k \in 1..count :
              sequence.parts[2 * k - 1]
                = callback(Elem(from(input), ListField, KeptIndex(list, k)), ctx)
         /\ \A k \in 1..(count - 1) : sequence.parts[2 * k] = hardline
         /\ count = 0 => ~hasHardLine(sequence)
         /\ (list # <<>> \/ input.type \notin {"ClassBody", "SwitchCase"})
              => IsPart(sequence, result.doc)

C19_Witness ==
  /\ op = "print"
  /\ input = Program(<<ExprStmt(Id("a")), Empty, ExprStmt(Id("b"))>>)
  /\ result.status = "ok"
  /\ result.code = "a;\nb;\n"

(***************************************************************************)
(* The Printer on control-flow clauses                                     *)
(***************************************************************************)
ClauseBodies ==
  {Block(<<>>), Block(<<ExprStmt(Call(Id("f"), <<>>))>>),
   ExprStmt(Call(Id("f"), <<>>)), ExprStmt(Obj(<<>>)),
   ExprStmt(Obj(<<Prop(Id("k"), Num("1"))>>)), Empty, IfCall}

Clauses ==
  UNION {{If(Id("c"), b), While(Id("c"), b), For(b), ForInit(Id("i"), b),
          ForIn(Id("k"), Id("o"), b), ForOf(Id("k"), Id("o"), b),
          ForAwait(Id("k"), Id("o"), b)}
         \cup {IfElse(Id("c"), b, e) : e \in ClauseBodies} :
         b \in ClauseBodies}

NextClauses == \E a \in Clauses : PrintOnce(a)

SpecClauses == InitLayout /\ [][NextClauses]_vars

ClauseTypes == LoopTypes \cup {"IfStatement"}

\* the document of the part in field f of the tree printed last
PartDoc(f) ==
  call(from(input), Ctx(options, explicitTabWidth, "printWithComments"), f)

\* the position in Out of the first token equal to s
FirstToken(s) ==
  CHOOSE i \in DOMAIN Out : Out[i] = s /\ \A j \in 1..(i - 1) : Out[j] # s

\* the tokens right after position k lay a clause with document d out: a
\* space and the `{` when d starts with `{`, else a new line indented by
\* tabWidth
ClauseLaidOut(k, d) ==
  IF getFirstString(d) = "{"
  THEN Out[k + 1] = " " /\ Out[k + 2] = "{"
  ELSE Out[k + 1] = NL(options.tabWidth)

\* C20: in an if, while, for, for-in, for-of and for-await the body comes
\* after `)` and one space when the first string of its document is `{`,
\* and on a new line indented by tabWidth otherwise; `else` comes after a
\* space when the first string of the consequent is `{` and on a line of
\* its own otherwise, and its clause is laid out by the same rule
C20_ClauseLayout ==
  (op = "print" /\ input.type \in ClauseTypes)
  => /\ result.status = "ok"
     /\ ClauseLaidOut(FirstToken(")"),
                      PartDoc(IF input.type = "IfStatement"
                              THEN "consequent" ELSE "body"))
     /\ Has(input, "alternate")
          => LET glued == getFirstString(PartDoc("consequent")) = "{"
                 else == IF glued THEN " else" ELSE "\nelse"
             IN  /\ Occurrences(Out, {" else", "\nelse"}) = 1
                 /\ Occurrences(Out, {else}) = 1
                 /\ ClauseLaidOut(FirstToken(else), PartDoc("alternate"))

C20_Witness ==
  /\ op = "print"
  /\ input = IfElse(Id("c"), ExprStmt(Call(Id("f"), <<>>)),
                    Block(<<ExprStmt(Call(Id("f"), <<>>))>>))
  /\ options.tabWidth = 2
  /\ result.status = "ok"
  /\ result.code = "if (c)\n  f();\nelse {\n  f();\n}"

(***************************************************************************)
(* The Printer on template literals                                        *)
(***************************************************************************)
TemplateElement(chars) ==
  [type |-> "TemplateElement", value |-> [raw |-> chars]]

TemplateLiteral(quasis, expressions) ==
  [type |-> "TemplateLiteral", quasis |-> quasis, expressions |-> expressions]

\* the characters of the raw texts
RawChars == {"a", "\n"}

Raws == SeqsUpTo(RawChars, MaxStrLen)

ShortRaws == SeqsUpTo(RawChars, 1)

\* the interpolated expressions: a name, and a template literal of its own
Interpolated ==
  {Id("x"), TemplateLiteral(<<TemplateElement(<<"\n">>)>>, <<>>)}

\* template literals with n + 1 quasis around n expressions, and two with
\* as many expressions as quasis or more
TemplateLiterals ==
  {TemplateLiteral(<<TemplateElement(r)>>, <<>>) : r \in Raws}
  \cup {TemplateLiteral(<<TemplateElement(r), TemplateElement(s)>>, <<e>>) :
          r \in Raws, s \in Raws, e \in Interpolated}
  \cup {TemplateLiteral(
          <<TemplateElement(r), TemplateElement(s), TemplateElement(t)>>,
          <<Id("x"), Id("y")>>) :
          r \in ShortRaws, s \in ShortRaws, t \in ShortRaws}
  \cup {TemplateLiteral(<<TemplateElement(<<"a">>)>>, <<Id("x")>>),
        TemplateLiteral(<<TemplateElement(<<"a">>)>>, <<Id("x"), Id("y")>>)}

\* the literal as a statement of the program, of a block, and of a block
\* in a block
TemplateStatements ==
  UNION {{ExprStmt(t), Block(<<ExprStmt(t)>>),
          Block(<<Block(<<ExprStmt(t)>>)>>)} : t \in TemplateLiterals}

NextTemplateLiterals == \E a \in TemplateStatements : PrintOnce(a)

SpecTemplateLiterals == InitLayout /\ [][NextTemplateLiterals]_vars

\* every template literal of the tree has one quasi more than expressions
WellFormed(a) ==
  \A i \in DOMAIN Nodes(a) :
    Nodes(a)[i].type = "TemplateLiteral"
    => Len(Nodes(a)[i].quasis) = Len(Nodes(a)[i].expressions) + 1

RECURSIVE Interpolation(_)
\* the text the claim gives for an expression: backquote, q0, ${e0}, q1 ...
\* qn, backquote, the raw texts as they are
Interpolation(n) ==
  IF n.type = "Identifier" THEN n.name
  ELSE backquote
       \o Cat([i \in 1..Len(n.expressions) |->
                 Cat(n.quasis[i].value.raw) \o "${"
                 \o Interpolation(n.expressions[i]) \o "}"])
       \o Cat(Last(n.quasis).value.raw)
       \o backquote

RECURSIVE StatementText(_, _)
\* the text of a statement at indentation ind
StatementText(n, ind) ==
  IF n.type = "BlockStatement"
  THEN "{" \o NL(ind + options.tabWidth)
       \o StatementText(n.body[1], ind + options.tabWidth)
       \o NL(ind) \o "}"
  ELSE Interpolation(n.expression) \o ";"

RECURSIVE LiteralLines(_)
\* the number of Literal lines of a document
LiteralLines(d) ==
  CASE d.t = "line" -> IF d.kind = "literal" THEN 1 ELSE 0
    [] d.t = "concat" ->
         IF d.parts = <<>> THEN 0
         ELSE LiteralLines(Head(d.parts))
              + LiteralLines([t |-> "concat", parts |-> Tail(d.parts)])
    [] d.t \in {"indent", "group"} -> LiteralLines(d.contents)
    [] OTHER -> 0

RECURSIVE Newlines(_, _)
\* the number of newlines in the raw texts of the nodes from the i-th on
Newlines(nodes, i) ==
  IF i > Len(nodes) THEN 0
  ELSE (IF nodes[i].type = "TemplateElement"
        THEN Count("\n", nodes[i].value.raw) ELSE 0)
       + Newlines(nodes, i + 1)

\* C21: a template literal with quasis q0..qn and expressions e0..e(n-1) is
\* printed as a backquote, q0, ${e0}, q1 ... qn in that order with every
\* expression once, and a backquote; the raw text of a quasi comes out
\* character for character, its k newlines as k Literal lines that render
\* as bare newlines without indentation at any nesting depth
C21_TemplateLiteral ==
  (op = "print" /\ input.type \in {"ExpressionStatement", "BlockStatement"}
   /\ SomeNode(input, LAMBDA n : n.type = "TemplateLiteral")
   /\ WellFormed(input))
  => /\ result.status = "ok"
     /\ result.code = StatementText(input, 0)
     /\ LiteralLines(result.doc) = Newlines(Nodes(input), 1)

C21_Witness ==
  /\ op = "print"
  /\ input = Block(<<Block(<<ExprStmt(TemplateLiteral(
               <<TemplateElement(<<"a", "\n">>),
                 TemplateElement(<<"\n", "a">>)>>,
               <<TemplateLiteral(<<TemplateElement(<<"\n">>)>>, <<>>)>>))>>)>>)
  /\ options.tabWidth = 4
  /\ result.status = "ok"
  /\ LiteralLines(result.doc) = 3
  /\ result.code = "{\n    {\n        ^a\n${^\n^}\na^;\n    }\n}"

(***************************************************************************)
(* nodeStr under every quote option                                        *)
(***************************************************************************)
\* values of the quote option the switch of nodeStr has no case for
UnknownQuotes == {"backtick", ""}

QuotedChars == QuoteChars \cup {"\n"}

\* a Printer configured with a quote option, known or not, handed a string
InitQuote ==
  /\ explicitTabWidth = 0
  /\ \E q \in Quotes \cup UnknownQuotes :
       options = normalizeOptions([tabWidth |-> 0, printWidth |-> DefaultPrintWidth,
                                   quote |-> q, objectCurlySpacing |-> FALSE])
  /\ config = options
  /\ \E str \in SeqsUpTo(QuotedChars, MaxStrLen) : input = Str(str)
  /\ ast = input
  /\ result = [status |-> "none"]
  /\ frames = <<>>
  /\ op = "new"

SpecQuote == InitQuote /\ [][NextStr]_vars

RECURSIVE Backslashes(_, _)
\* the number of backslashes in a row that end right before position i
Backslashes(body, i) ==
  IF i > 1 /\ body[i - 1] = "\\" THEN 1 + Backslashes(body, i - 1) ELSE 0

\* the character at position i of the body is backslash-escaped
Escaped(body, i) == Backslashes(body, i) % 2 = 1

RECURSIVE unescape(_)
\* the string a JavaScript literal with this body denotes
unescape(body) ==
  IF body = <<>> THEN <<>>
  ELSE IF Head(body) = "\\" /\ Len(body) >= 2
       THEN <<(IF body[2] = "n" THEN "\n" ELSE body[2])>>
            \o unescape(Tail(Tail(body)))
       ELSE <<Head(body)>> \o unescape(Tail(body))

\* C22: under quote=single (double) nodeStr returns a literal delimited by
\* that quote, with every delimiter character of the body escaped by a
\* backslash and no character of the other quote escaped, and unescaping
\* the body gives the string back; a quote option other than `auto`,
\* `single` and `double` gives what `double` gives
C22_ForcedQuote ==
  (op = "nodeStr" /\ options.quote # "auto")
  => LET str == input.value.chars
         delimiter == IF options.quote = "single" THEN "'" ELSE "\""
         other == IF options.quote = "single" THEN "\"" ELSE "'"
         body == SubSeq(result.str, 2, Len(result.str) - 1)
     IN  /\ Len(result.str) >= 2
         /\ Head(result.str) = delimiter
         /\ Last(result.str) = delimiter
         /\ \A i \in DOMAIN body :
              /\ body[i] = delimiter => Escaped(body, i)
              /\ body[i] = other => ~Escaped(body, i)
         /\ unescape(body) = str
         /\ options.quote # "single" => result.str = JSONstringify(str)

C22_Witness ==
  /\ op = "nodeStr"
  /\ options.quote = "single"
  /\ input.value.chars = <<"'", "\"", "\\">>
  /\ result.str = <<"'", "\\", "'", "\"", "\\", "\\", "'">>

(***************************************************************************)
(* The template translator on attributes                                   *)
(***************************************************************************)
AttributeNames == {"id", "alt"}

AttributeChars == {"x", "\""}

\* the values of an attribute: text with its start and end columns, equal
\* or not, and a mustache
AttributeValues ==
  {TextNode(chars, 9, end) :
     chars \in SeqsUpTo(AttributeChars, MaxStrLen), end \in {9, 10}}
  \cup {MustacheStatement(<<"a">>)}

Attributes == {AttrNode(name, v) : name \in AttributeNames, v \in AttributeValues}

NextAttributes == \E a \in Attributes : PrintTemplate(a)

SpecAttributes == Init /\ [][NextAttributes]_vars

\* the value is a text node that starts where it ends
SpansNothing(value) ==
  /\ value.type = "TextNode"
  /\ value.loc.start.line = value.loc.end.line
  /\ value.loc.start.column = value.loc.end.column

\* C23: an AttrNode is printed as the bare attribute name, exactly when its
\* value is a text node whose start and end coincide, or as name="chars";
\* no attribute value has another outcome
C23_AttrNode ==
  (op = "printPath" /\ input.type = "AttrNode")
  => /\ result.status = "ok"
     /\ result.code = IF SpansNothing(input.value)
                      THEN input.name
                      ELSE input.name \o "=\"" \o Cat(input.value.chars) \o "\""

\* an attribute whose value is a mustache aborts the translation
C23_MustacheValueAborts ==
  /\ op = "printPath"
  /\ input = AttrNode("id", MustacheStatement(<<"a">>))
  /\ result.status = "throw"
  /\ result.msg = "unsupported handlebars attribute type"

\* the claim for the attributes with a text value
C23_TextValue ==
  (op = "printPath" /\ input.type = "AttrNode"
   /\ input.value.type = "TextNode")
  => /\ result.status = "ok"
     /\ result.code = IF SpansNothing(input.value)
                      THEN input.name
                      ELSE input.name \o "=\"" \o Cat(input.value.chars) \o "\""

(***************************************************************************)
(* The template translator on elements                                     *)
(***************************************************************************)
\* the children of an element: text, the mustache, childless elements
ElementChildren ==
  LET child == {TextNode(<<"a">>, 5, 6), MustacheStatement(<<"a">>),
                ElementNode("p", <<>>, <<>>), ElementNode("br", <<>>, <<>>)}
  IN  {<<>>} \cup {<<c>> : c \in child} \cup {<<c, d>> : c \in child, d \in child}

Elements ==
  LET attributes == {<<>>, <<AttrNode("id", TextNode(<<"x">>, 9, 10))>>}
  IN  {ElementNode(tag, as, cs) :
         tag \in ElementTags, as \in attributes, cs \in ElementChildren}
      \cup {NamedElementNode(tag, as, cs) :
              tag \in ElementTags, as \in attributes, cs \in ElementChildren}

NextElements == \E a \in Elements : PrintTemplate(a)

SpecElements == Init /\ [][NextElements]_vars

\* the closing tag of the element printed last, after its Soft line
ClosingTag ==
  concat(<<softline, fromString("</"), fromString(input.tag), fromString(">")>>)

\* C24: an element is printed with the closing tag `</tag>` after one Soft
\* line iff it has a child, the children indented between `>` and the
\* closing tag; an element without children has no closing tag, closes
\* with ` />` when its tag is not void and is followed by one Hard line
C24_ElementClosing ==
  (op = "printPath" /\ input.type = "ElementNode")
  => /\ result.status = "ok"
     /\ LET parts == result.doc.contents.parts
            closed == {i \in DOMAIN parts : parts[i] = ClosingTag}
            hard == {i \in DOMAIN parts : parts[i] = hardline}
        IN  /\ closed # {} <=> input.children # <<>>
            /\ input.children # <<>>
                 => /\ closed = {Len(parts)}
                    /\ hard = {}
                    /\ parts[Len(parts) - 2] = fromString(">")
                    /\ parts[Len(parts) - 1]
                         = indent(options.tabWidth,
                                  printChildren("children", from(input), options))
            /\ input.children = <<>>
                 => /\ hard = {Len(parts)}
                    /\ \A i \in DOMAIN Out : Out[i] # "</"
                    /\ input.tag \notin voidTags
                         => parts[Len(parts) - 2] = fromString(" />")

C24_Witness ==
  /\ op = "printPath"
  /\ input = ElementNode("div", <<>>, <<ElementNode("p", <<>>, <<>>)>>)
  /\ options.tabWidth = 4
  /\ result.status = "ok"
  /\ result.code = "<div><p />\n    \n</div>"

(***************************************************************************)
(* The template translator on text                                         *)
(***************************************************************************)
TextChars == {"a", "b", " ", "\n"}

\* the longest text: room for two whitespace characters between two others
MaxTextLen == 4

Texts == {TextNode(chars, 0, Len(chars)) : chars \in SeqsUpTo(TextChars, MaxTextLen)}

NextText == \E a \in Texts : PrintTemplate(a)

SpecText == Init /\ [][NextText]_vars

\* the characters of chars that are not whitespace, in order
NonSpace(chars) == SelectSeq(chars, LAMBDA c : ~IsSpace(c))

\* no whitespace at either end, no two whitespace characters in a row, no
\* whitespace character but the space
IsNormalised(chars) ==
  /\ chars # <<>> => ~IsSpace(Head(chars)) /\ ~IsSpace(Last(chars))
  /\ \A i \in 1..(Len(chars) - 1) : ~(IsSpace(chars[i]) /\ IsSpace(chars[i + 1]))
  /\ \A i \in DOMAIN chars : IsSpace(chars[i]) => chars[i] = " "

\* C25: the output for a TextNode has no whitespace at either end, no two
\* whitespace characters in a row and no whitespace character but the
\* space, keeps the other characters in their order, and is left as it is
\* by the normalisation
C25_TextNormalised ==
  (op = "printPath" /\ input.type = "TextNode")
  => /\ result.status = "ok"
     /\ \E out \in SeqsUpTo(TextChars, Len(input.chars)) :
          /\ result.code = Cat(out)
          /\ result.doc = fromString(Cat(out))
          /\ IsNormalised(out)
          /\ NonSpace(out) = NonSpace(input.chars)
          /\ printPath(from(TextNode(out, 0, Len(out))), options) = result.doc

C25_Witness ==
  /\ op = "printPath"
  /\ input.type = "TextNode"
  /\ input.chars = <<"a", "\n", " ", "b">>
  /\ result.status = "ok"
  /\ result.code = "a b"

(***************************************************************************)
(* The Printer on clauses with an empty statement as body                  *)
(***************************************************************************)
\* the statements with a clause, each with the body b
ClausesWith(b) ==
  {If(Id("c"), b), While(Id("c"), b), For(b), ForInit(Id("i"), b),
   ForIn(Id("k"), Id("o"), b), ForOf(Id("k"), Id("o"), b)}

\* what follows the statement in the program
Followers == {<<>>, <<ExprStmt(Call(Id("g"), <<>>))>>, <<Block(<<>>)>>}

EmptyBodyPrograms ==
  {Program(<<s>> \o rest) :
     s \in UNION {ClausesWith(b) :
                    b \in {Empty, Block(<<>>), ExprStmt(Call(Id("f"), <<>>))}},
     rest \in Followers}

NextEmptyBodies == \E a \in EmptyBodyPrograms : PrintOnce(a)

SpecEmptyBodies == InitLayout /\ [][NextEmptyBodies]_vars

\* the field that holds the body of a clause
BodyField(n) == IF n.type = "IfStatement" THEN "consequent" ELSE "body"

\* a token of spaces and line breaks only
IsBlankToken(tok) == tok \in {" "} \cup {NL(i) : i \in 0..MaxIndent}

\* the tokens that are not blank, in order
Significant(out) == SelectSeq(out, LAMBDA tok : ~IsBlankToken(tok))

\* the tokens of the program whose first statement has the body b and
\* nothing after it
TokensWithBody(b) ==
  LET clause == [input.body[1] EXCEPT ![BodyField(input.body[1])] = b]
      lines == print(from(Program(<<clause>>)),
                     Ctx(options, explicitTabWidth, "printWithComments"))
  IN  Significant(Tokens(lines, options.printWidth))

\* C26: an if, while, for, for-in or for-of whose body is an EmptyStatement
\* is printed with an explicit empty body, `;` or `{}`, after its `)`, so
\* the statement after it in the list is not printed as its body
C26_EmptyBodyExplicit ==
  (op = "print" /\ input.type = "Program"
   /\ input.body[1].type \in ClauseTypes
   /\ input.body[1][BodyField(input.body[1])] = Empty)
  => /\ result.status = "ok"
     /\ LET rest == SubSeq(Significant(Out),
                           Len(Significant(SubSeq(Out, 1, FirstToken(")")))) + 1,
                           Len(Significant(Out)))
        IN  /\ rest # <<>>
            /\ Head(rest) \in {";", "{}", "{"}
            /\ Len(input.body) > 1
                 => Significant(Out) # TokensWithBody(input.body[2])

\* `while (c); g();` comes out as a loop around g()
C26_FollowingBecomesBody ==
  /\ op = "print"
  /\ input = Program(<<While(Id("c"), Empty), ExprStmt(Call(Id("g"), <<>>))>>)
  /\ options.tabWidth = 4
  /\ result.status = "ok"
  /\ result.code = "while (c)\n    \ng();\n"
  /\ Significant(Out) = TokensWithBody(ExprStmt(Call(Id("g"), <<>>)))

(***************************************************************************)
(* print(path) of the Printer, call by call                                *)
(*                                                                         *)
(* A frame is one print(path) call in progress: its node, the child it     *)
(* prints next, whether it replaced options.tabWidth by a guess, its       *)
(* oldTabWidth (0: not assigned), and the tab width it found at entry.     *)
(***************************************************************************)
\* the children a rule hands to print, in the order of the calls
printedChildren(n) ==
  CASE n.type \in {"Program", "BlockStatement"} ->
         SelectSeq(n.body, LAMBDA stmt : stmt.type # "EmptyStatement")
    [] n.type = "ExpressionStatement" -> <<n.expression>>
    [] n.type = "CallExpression" -> <<n.callee>> \o n.arguments
    [] OTHER -> <<>>

Top == frames[Len(frames)]

\* loc && loc.lines && loc.lines.guessTabWidth, when !explicitTabWidth
guesses(node) == explicitTabWidth = 0 /\ Has(node, "loc")

\* print(path) from its entry to its call of maybeReprint(path)
printEntered(node, callers) ==
  /\ frames' = Append(callers,
       [node |-> node, next |-> 1, guessed |-> guesses(node),
        oldTabWidth |-> IF explicitTabWidth = 0 THEN options.tabWidth ELSE 0,
        entry |-> options.tabWidth])
  /\ options' = IF guesses(node)
                THEN [options EXCEPT !.tabWidth = node.loc.guessTabWidth]
                ELSE options

\* Printer.print(ast) up to print(FastPath.from(ast), true)
printCalled(a) ==
  /\ op = "new"
  /\ input' = a
  /\ ast' = a
  /\ op' = "printing"
  /\ printEntered(a, <<>>)
  /\ UNCHANGED <<explicitTabWidth, config, result>>

\* the rule of the node of the innermost call prints its next child
printChild ==
  /\ op = "printing"
  /\ Top.node.type \in RuleTypes
  /\ Top.next <= Len(printedChildren(Top.node))
  /\ printEntered(printedChildren(Top.node)[Top.next],
                  [frames EXCEPT ![Len(frames)].next = @ + 1])
  /\ UNCHANGED <<explicitTabWidth, config, input, ast, result, op>>

\* what print(path) hands back to Printer.print once no call is in progress
printFinished(opts) ==
  IF Len(frames) > 1
  THEN UNCHANGED <<input, ast, result, op>>
  ELSE /\ op' = "print"
       /\ result' = [status |-> "ok", tabWidth |-> opts.tabWidth]
       /\ UNCHANGED <<input, ast>>

\* print(path) returning without `options.tabWidth = oldTabWidth`
printReturnsUnrestored ==
  /\ op = "printing"
  /\ Top.node.type \in RuleTypes
  /\ Top.next > Len(printedChildren(Top.node))
  /\ frames' = SubSeq(frames, 1, Len(frames) - 1)
  /\ options' = options
  /\ printFinished(options)
  /\ UNCHANGED <<explicitTabWidth, config>>

\* maybeReprint(path) returns and print(path) with it
printReturns ==
  /\ op = "printing"
  /\ Top.node.type \in RuleTypes
  /\ Top.next > Len(printedChildren(Top.node))
  /\ frames' = SubSeq(frames, 1, Len(frames) - 1)
  /\ options' = IF Top.guessed
                THEN [options EXCEPT !.tabWidth = Top.oldTabWidth]
                ELSE options
  /\ printFinished(options')
  /\ UNCHANGED <<explicitTabWidth, config>>

\* genericPrint has no rule for the node: the throw ends every call in
\* progress
printThrows ==
  /\ op = "printing"
  /\ Top.node.type \notin RuleTypes
  /\ frames' = <<>>
  /\ op' = "print"
  /\ result' = [status |-> "throw", tabWidth |-> options.tabWidth]
  /\ UNCHANGED <<options, explicitTabWidth, config, input, ast>>

\* the tab widths the source locations guess; 0: the node has no location
GuessedWidths == {0, 2, 8}

Located(w, n) == IF w = 0 THEN n ELSE At(w, n)

FrameTrees ==
  {Located(w1, Program(<<
     Located(w2, ExprStmt(Located(w3, Call(Id("f"), <<Located(w1, Id("a"))>>)))),
     Located(w3, ExprStmt(Id("b")))>>)) :
     w1 \in GuessedWidths, w2 \in GuessedWidths, w3 \in GuessedWidths}
  \cup {Located(w1, Program(<<Located(w2, ExprStmt([type |-> "Bogus"]))>>)) :
          w1 \in GuessedWidths, w2 \in GuessedWidths}

NextFrames ==
  \/ \E a \in FrameTrees : printCalled(a)
  \/ printChild
  \/ printReturns
  \/ printThrows

SpecFrames == Init /\ [][NextFrames]_vars

\* a step in which the innermost call returns normally
Returns ==
  /\ op = "printing"
  /\ Len(frames') = Len(frames) - 1
  /\ result'.status # "throw"

\* C27: without an explicit tabWidth, a print(path) call that returns
\* normally leaves options.tabWidth as it found it at entry, whatever
\* widths it and the calls below it guessed; with an explicit tabWidth no
\* step of a print call changes options.tabWidth
C27_TabWidthRestored ==
  [][/\ Returns => options'.tabWidth = Top.entry
     /\ explicitTabWidth # 0 => options'.tabWidth = options.tabWidth]_vars

\* a call that guessed 2 below one that guessed 8 has returned, and the
\* tab width is 8 again
C27_Witness ==
  /\ op = "printing"
  /\ explicitTabWidth = 0
  /\ Len(frames) = 1
  /\ Top.guessed
  /\ Top.next = 2
  /\ input = At(8, Program(<<
                At(2, ExprStmt(Call(Id("f"), <<At(8, Id("a"))>>))),
                ExprStmt(Id("b"))>>))
  /\ options.tabWidth = 8
  /\ Top.entry = config.tabWidth

====
